---------------------------- MODULE Spec2Model ----------------------------
(***************************************************************************)
(* A model of the SQL visualizer backend: the statement splitter of       *)
(* SQLExecutionService, the clause parser SQLParserService and the data    *)
(* flow simulator SQLVisualizationService.                                 *)
(*                                                                         *)
(* Text is modelled as TLA+ strings, read character by character with     *)
(* Len, SubSeq and \o, so that every regular expression of the source is   *)
(* a matcher computed over the characters of its input.                    *)
(***************************************************************************)
EXTENDS Integers, Sequences, FiniteSets, TLC

(***************************************************************************)
(* Characters and strings                                                  *)
(***************************************************************************)

Min(S) == CHOOSE x \in S : \A y \in S : x <= y

Max(S) == CHOOSE x \in S : \A y \in S : x >= y

\* The element of a singleton set: Only({e(x) : x \in {v}}) is e for x = v.
Only(S) == CHOOSE x \in S : TRUE

\* The character of s at position i (1-based), "" outside the string.
Ch(s, i) == IF i >= 1 /\ i <= Len(s) THEN SubSeq(s, i, i) ELSE ""

\* s[i..j], clamped to the string.
Sub(s, i, j) ==
  LET a == IF i < 1 THEN 1 ELSE i
      b == IF j > Len(s) THEN Len(s) ELSE j
  IN IF a > b THEN "" ELSE SubSeq(s, a, b)

CharSet(s) == {SubSeq(s, i, i) : i \in 1..Len(s)}

LowerLetters == "abcdefghijklmnopqrstuvwxyz"

UpperLetters == "ABCDEFGHIJKLMNOPQRSTUVWXYZ"

DigitChars == "0123456789"

\* \s of a JavaScript regular expression (the characters the model uses).
SpaceChars == {" ", "\t", "\n", "\r"}

\* \w of a JavaScript regular expression.
WordChars == CharSet(LowerLetters) \cup CharSet(UpperLetters) \cup CharSet(DigitChars) \cup {"_"}

IsSpaceCh(c) == c \in SpaceChars

IsWordCh(c) == c \in WordChars

IsDigitCh(c) == c \in CharSet(DigitChars)

UpperOf ==
  [c \in CharSet(LowerLetters) |->
     LET i == CHOOSE k \in 1..Len(LowerLetters) : SubSeq(LowerLetters, k, k) = c
     IN SubSeq(UpperLetters, i, i)]

UpperCh(c) == IF c \in DOMAIN UpperOf THEN UpperOf[c] ELSE c

\* The concatenation f[i] \o ... \o f[j] of the strings of f (by halves, to keep the
\* evaluation shallow).
RECURSIVE Join(_, _, _)
Join(f, i, j) ==
  IF i > j THEN ""
  ELSE IF i = j THEN f[i]
  ELSE LET m == (i + j) \div 2 IN Join(f, i, m) \o Join(f, m + 1, j)

\* String.prototype.toUpperCase
toUpperCase(s) == Join([i \in 1..Len(s) |-> UpperCh(Ch(s, i))], 1, Len(s))

\* String.prototype.trim
trim(s) ==
  IF \A i \in 1..Len(s) : IsSpaceCh(Ch(s, i)) THEN ""
  ELSE LET lead == CHOOSE d \in 0..(Len(s) - 1) :
                     /\ ~IsSpaceCh(Ch(s, 1 + d))
                     /\ \A k \in 1..d : IsSpaceCh(Ch(s, k))
           trail == CHOOSE d \in 0..(Len(s) - 1) :
                      /\ ~IsSpaceCh(Ch(s, Len(s) - d))
                      /\ \A k \in 0..(d - 1) : IsSpaceCh(Ch(s, Len(s) - k))
       IN SubSeq(s, 1 + lead, Len(s) - trail)

\* replace(/\s+/g, ' '): every run of whitespace becomes one space.
CollapseSpaces(s) ==
  Join([i \in 1..Len(s) |->
          IF ~IsSpaceCh(Ch(s, i)) THEN Ch(s, i)
          ELSE IF IsSpaceCh(Ch(s, i - 1)) THEN "" ELSE " "], 1, Len(s))

\* SQLParserService.normalizeQuery: replace(/\s+/g, ' ').replace(/\n/g, ' ').trim()
normalizeQuery(q) == trim(CollapseSpaces(q))

\* String.prototype.startsWith
startsWith(s, p) == Len(p) <= Len(s) /\ Sub(s, 1, Len(p)) = p

\* The keyword kw (upper case) stands at position i of the upper-cased text U.
KwAt(U, i, kw) == i >= 1 /\ i + Len(kw) - 1 <= Len(U) /\ SubSeq(U, i, i + Len(kw) - 1) = kw

\* \b at position i: between s[i-1] and s[i] exactly one is a word character.
WordBoundary(s, i) == IsWordCh(Ch(s, i - 1)) # IsWordCh(Ch(s, i))

\* The first position at or after i that holds no whitespace (Len(s)+1 at the end).
SkipSpaces(s, i) ==
  IF i > Len(s) THEN i
  ELSE CHOOSE j \in i..(Len(s) + 1) :
         ~IsSpaceCh(Ch(s, j)) /\ \A k \in i..(j - 1) : IsSpaceCh(Ch(s, k))

\* The first position at or after i that holds no word character.
SkipWord(s, i) ==
  IF i > Len(s) THEN i
  ELSE CHOOSE j \in i..(Len(s) + 1) :
         ~IsWordCh(Ch(s, j)) /\ \A k \in i..(j - 1) : IsWordCh(Ch(s, k))

\* The first position at or after i that holds no digit.
SkipDigits(s, i) ==
  IF i > Len(s) THEN i
  ELSE CHOOSE j \in i..(Len(s) + 1) :
         ~IsDigitCh(Ch(s, j)) /\ \A k \in i..(j - 1) : IsDigitCh(Ch(s, k))

(***************************************************************************)
(* SQLParserService.parseExecutionOrder                                    *)
(*                                                                         *)
(* Every matcher below reads the normalized text s and its upper-cased     *)
(* copy U (the regular expressions carry the i flag).  normalizeQuery      *)
(* leaves single spaces between tokens and none at the ends, so each \s+   *)
(* of a pattern consumes exactly the one space it meets.                   *)
(***************************************************************************)

NoMatch == [found |-> FALSE, g1 |-> "", g2 |-> ""]

\* The characters of the class [^WHERE|JOIN|GROUP|ORDER|HAVING|LIMIT|;]: it is a
\* negated character class, so it refuses each of these letters (in either
\* case), the bar and the semicolon.
FromClassChars == CharSet("WHERE|JOIN|GROUP|ORDER|HAVING|LIMIT|;")

InFromClass(c) == c # "" /\ UpperCh(c) \notin FromClassChars

\* The end (exclusive) of the longest run of class characters starting at i.
SkipFromClass(s, i) ==
  IF i > Len(s) THEN i
  ELSE CHOOSE j \in i..(Len(s) + 1) :
         ~InFromClass(Ch(s, j)) /\ \A k \in i..(j - 1) : InFromClass(Ch(s, k))

\* /\bFROM\s+([^WHERE|JOIN|GROUP|ORDER|HAVING|LIMIT|;]+)/i
FromRegex(s, U) ==
  LET starts == {i \in 1..Len(s) :
                   /\ WordBoundary(s, i)
                   /\ KwAt(U, i, "FROM")
                   /\ IsSpaceCh(Ch(s, i + 4))
                   /\ InFromClass(Ch(s, SkipSpaces(s, i + 4)))}
  IN IF starts = {} THEN NoMatch
     ELSE LET c == SkipSpaces(s, Min(starts) + 4)
          IN [found |-> TRUE, g1 |-> Sub(s, c, SkipFromClass(s, c) - 1), g2 |-> ""]

JoinKinds == {"INNER", "LEFT", "RIGHT", "FULL", "CROSS"}

\* (?:INNER|LEFT|RIGHT|FULL|CROSS)?\s*JOIN from position i: where JOIN stands, 0 if
\* the text does not match.
JoinKeywordAt(s, U, i) ==
  LET viaKind == {SkipSpaces(s, i + Len(k)) : k \in {k \in JoinKinds : KwAt(U, i, k)}}
      hits == {p \in viaKind : KwAt(U, p, "JOIN")}
      bare == SkipSpaces(s, i)
  IN IF hits # {} THEN Min(hits) ELSE IF KwAt(U, bare, "JOIN") THEN bare ELSE 0

\* (?:\s+ON\s+[^WHERE|JOIN|GROUP|ORDER|HAVING|LIMIT|;]+)? from position ae: the end
\* (exclusive) of the match, ae itself when the optional part does not match.
JoinOnEnd(s, U, ae) ==
  IF /\ SkipSpaces(s, ae) > ae
     /\ KwAt(U, SkipSpaces(s, ae), "ON")
     /\ IsSpaceCh(Ch(s, SkipSpaces(s, ae) + 2))
     /\ InFromClass(Ch(s, SkipSpaces(s, SkipSpaces(s, ae) + 2)))
  THEN SkipFromClass(s, SkipSpaces(s, SkipSpaces(s, ae) + 2))
  ELSE ae

\* (?:\s+(?:AS\s+)?\w+)? from position te: the end (exclusive) of the match, te
\* itself when the optional part does not match.
JoinAliasEnd(s, U, te) ==
  IF /\ SkipSpaces(s, te) > te
     /\ KwAt(U, SkipSpaces(s, te), "AS")
     /\ IsSpaceCh(Ch(s, SkipSpaces(s, te) + 2))
     /\ IsWordCh(Ch(s, SkipSpaces(s, SkipSpaces(s, te) + 2)))
  THEN SkipWord(s, SkipSpaces(s, SkipSpaces(s, te) + 2))
  ELSE IF SkipSpaces(s, te) > te /\ IsWordCh(Ch(s, SkipSpaces(s, te)))
  THEN SkipWord(s, SkipSpaces(s, te))
  ELSE te

\* JOIN\s+\w+ and the optional parts, JOIN standing at position j (0: no match).
JoinTableEnd(s, U, j) ==
  IF j = 0 \/ ~IsSpaceCh(Ch(s, j + 4)) \/ ~IsWordCh(Ch(s, SkipSpaces(s, j + 4))) THEN 0
  ELSE JoinOnEnd(s, U, JoinAliasEnd(s, U, SkipWord(s, SkipSpaces(s, j + 4))))

\* The end (exclusive) of a match of the JOIN pattern that starts at i, 0 if none:
\* \b((?:INNER|LEFT|RIGHT|FULL|CROSS)?\s*JOIN\s+\w+(?:\s+(?:AS\s+)?\w+)?
\*    (?:\s+ON\s+[^WHERE|JOIN|GROUP|ORDER|HAVING|LIMIT|;]+)?)
JoinMatchEnd(s, U, i) ==
  IF ~WordBoundary(s, i) THEN 0 ELSE JoinTableEnd(s, U, JoinKeywordAt(s, U, i))

\* The first position at or after pos where the JOIN pattern matches, 0 if none.
JoinMatchStart(s, U, pos) ==
  IF \E i \in pos..Len(s) : JoinMatchEnd(s, U, i) # 0
  THEN CHOOSE i \in pos..Len(s) :
         JoinMatchEnd(s, U, i) # 0 /\ \A k \in pos..(i - 1) : JoinMatchEnd(s, U, k) = 0
  ELSE 0

\* The matches from the one that starts at i on (none when i = 0).
RECURSIVE JoinMatchesFrom(_, _, _)
JoinMatchesFrom(s, U, i) ==
  IF i = 0 THEN << >>
  ELSE <<Sub(s, i, JoinMatchEnd(s, U, i) - 1)>>
         \o JoinMatchesFrom(s, U, JoinMatchStart(s, U, JoinMatchEnd(s, U, i)))

\* String.prototype.match with the g flag: every match, left to right, each search
\* resuming where the previous match ended.
JoinMatches(s, U, pos) == JoinMatchesFrom(s, U, JoinMatchStart(s, U, pos))

\* \s+GROUP\s+BY and \s+ORDER\s+BY at position e.
LookTwoWords(s, U, e, w1) ==
  /\ IsSpaceCh(Ch(s, e))
  /\ KwAt(U, SkipSpaces(s, e), w1)
  /\ IsSpaceCh(Ch(s, SkipSpaces(s, e) + Len(w1)))
  /\ KwAt(U, SkipSpaces(s, SkipSpaces(s, e) + Len(w1)), "BY")

\* \s+HAVING and \s+LIMIT at position e.
LookWord(s, U, e, w) == IsSpaceCh(Ch(s, e)) /\ KwAt(U, SkipSpaces(s, e), w)

\* The lookahead that ends the clause `kind`:
\*   WHERE     (?=\s+GROUP\s+BY|\s+HAVING|\s+ORDER\s+BY|\s+LIMIT|\s*;|\s*$)
\*   GROUP BY  (?=\s+HAVING|\s+ORDER\s+BY|\s+LIMIT|\s*;|\s*$)
\*   HAVING    (?=\s+ORDER\s+BY|\s+LIMIT|\s*;|\s*$)
\*   ORDER BY  (?=\s+LIMIT|\s*;|\s*$)
ClauseLookahead(kind, s, U, e) ==
  \/ kind = "WHERE" /\ LookTwoWords(s, U, e, "GROUP")
  \/ kind \in {"WHERE", "GROUP"} /\ LookWord(s, U, e, "HAVING")
  \/ kind \in {"WHERE", "GROUP", "HAVING"} /\ LookTwoWords(s, U, e, "ORDER")
  \/ LookWord(s, U, e, "LIMIT")
  \/ Ch(s, SkipSpaces(s, e)) = ";"
  \/ SkipSpaces(s, e) = Len(s) + 1

\* \bWHERE\s+, \bGROUP\s+BY\s+, \bHAVING\s+, \bORDER\s+BY\s+ at position i: the
\* position after the keyword and its space, 0 if the text does not match.
ClauseHeadEnd(kind, s, U, i) ==
  IF ~(WordBoundary(s, i) /\ KwAt(U, i, kind) /\ IsSpaceCh(Ch(s, i + Len(kind)))) THEN 0
  ELSE LET p == SkipSpaces(s, i + Len(kind))
       IN IF kind \in {"WHERE", "HAVING"} THEN p
          ELSE IF KwAt(U, p, "BY") /\ IsSpaceCh(Ch(s, p + 2)) THEN SkipSpaces(s, p + 2)
          ELSE 0

\* \b<kind>\s+(.+?)(?=<lookahead>): the leftmost head followed by a character; the
\* lazy group takes the fewest characters (at least one) that reach the lookahead.
ClauseRegex(kind, s, U) ==
  LET starts == {i \in 1..Len(s) :
                   ClauseHeadEnd(kind, s, U, i) # 0 /\ ClauseHeadEnd(kind, s, U, i) <= Len(s)}
  IN IF starts = {} THEN NoMatch
     ELSE LET c == ClauseHeadEnd(kind, s, U, Min(starts))
              e == Min({k \in (c + 1)..(Len(s) + 1) : ClauseLookahead(kind, s, U, k)})
          IN [found |-> TRUE, g1 |-> Sub(s, c, e - 1), g2 |-> ""]

\* /\bLIMIT\s+(\d+)/i and /\bOFFSET\s+(\d+)/i
NumberRegex(kw, s, U) ==
  LET starts == {i \in 1..Len(s) :
                   /\ WordBoundary(s, i)
                   /\ KwAt(U, i, kw)
                   /\ IsSpaceCh(Ch(s, i + Len(kw)))
                   /\ IsDigitCh(Ch(s, SkipSpaces(s, i + Len(kw))))}
  IN IF starts = {} THEN NoMatch
     ELSE LET c == SkipSpaces(s, Min(starts) + Len(kw))
          IN [found |-> TRUE, g1 |-> Sub(s, c, SkipDigits(s, c) - 1), g2 |-> ""]

\* The end (exclusive) of the lazy group (.+?) that starts at c and is followed by
\* \s+FROM, 0 if there is none.
SelectListEnd(s, U, c) ==
  LET ends == {e \in (c + 1)..Len(s) : IsSpaceCh(Ch(s, e)) /\ KwAt(U, SkipSpaces(s, e), "FROM")}
  IN IF c > Len(s) \/ ends = {} THEN 0 ELSE Min(ends)

\* /^SELECT\s+(DISTINCT\s+)?(.+?)\s+FROM/i: the optional group is tried first and
\* given up when the rest cannot match after it.
SelectRegex(s, U) ==
  IF ~(KwAt(U, 1, "SELECT") /\ IsSpaceCh(Ch(s, 7))) THEN NoMatch
  ELSE LET p == SkipSpaces(s, 7)
           q == SkipSpaces(s, p + 8)
           withDistinct == KwAt(U, p, "DISTINCT") /\ q > p + 8 /\ SelectListEnd(s, U, q) # 0
       IN IF withDistinct
          THEN [found |-> TRUE, g1 |-> Sub(s, p, q - 1), g2 |-> Sub(s, q, SelectListEnd(s, U, q) - 1)]
          ELSE IF SelectListEnd(s, U, p) # 0
          THEN [found |-> TRUE, g1 |-> "", g2 |-> Sub(s, p, SelectListEnd(s, U, p) - 1)]
          ELSE NoMatch

\* A step as it is pushed, before it gets its order.
Push(type, clause, description) ==
  <<[type |-> type, clause |-> clause, description |-> description]>>

\* if (m?.[1]) steps.push({type, clause: `<type> ${m[1].trim()}`, description})
\* for a match m that is a value.
ClausePush(m, type, description) ==
  IF m.found /\ m.g1 # "" THEN Push(type, type \o " " \o trim(m.g1), description) ELSE << >>

FromPush(s, U) ==
  Only({ClausePush(m, "FROM", "Load data from table(s)") : m \in {FromRegex(s, U)}})

\* for (const joinClause of joinMatches) steps.push({type: 'JOIN', clause: joinClause.trim(), ...})
JoinPush(s, U) ==
  Only({[k \in 1..Len(joins) |->
           [type |-> "JOIN", clause |-> trim(joins[k]),
            description |-> "Combine rows from joined tables"]] :
        joins \in {JoinMatches(s, U, 1)}})

WherePush(s, U) ==
  Only({ClausePush(m, "WHERE", "Filter rows based on conditions") :
        m \in {ClauseRegex("WHERE", s, U)}})

GroupByPush(s, U) ==
  Only({ClausePush(m, "GROUP BY", "Group rows by specified columns") :
        m \in {ClauseRegex("GROUP", s, U)}})

HavingPush(s, U) ==
  Only({ClausePush(m, "HAVING", "Filter groups based on aggregate conditions") :
        m \in {ClauseRegex("HAVING", s, U)}})

\* The SELECT step and, when the DISTINCT group matched, the DISTINCT step after it.
SelectPush(s, U) ==
  Only({IF ~(m.found /\ m.g2 # "") THEN << >>
        ELSE Push("SELECT", "SELECT " \o trim(m.g2), "Select specified columns")
               \o (IF m.g1 # "" THEN Push("DISTINCT", "DISTINCT", "Remove duplicate rows")
                   ELSE << >>) :
        m \in {SelectRegex(s, U)}})

OrderByPush(s, U) ==
  Only({ClausePush(m, "ORDER BY", "Sort result rows") : m \in {ClauseRegex("ORDER", s, U)}})

LimitPush(s, U) ==
  Only({IF m.found /\ m.g1 # ""
        THEN Push("LIMIT", "LIMIT " \o m.g1, "Limit results to " \o m.g1 \o " rows")
        ELSE << >> :
        m \in {NumberRegex("LIMIT", s, U)}})

OffsetPush(s, U) ==
  Only({IF m.found /\ m.g1 # ""
        THEN Push("OFFSET", "OFFSET " \o m.g1, "Skip first " \o m.g1 \o " rows")
        ELSE << >> :
        m \in {NumberRegex("OFFSET", s, U)}})

\* The steps pushed in the order the clauses are written in a query: SELECT and
\* DISTINCT first.
PushesAsWritten(s, U) ==
  SelectPush(s, U) \o FromPush(s, U) \o JoinPush(s, U) \o WherePush(s, U)
    \o GroupByPush(s, U) \o HavingPush(s, U) \o OrderByPush(s, U) \o LimitPush(s, U)
    \o OffsetPush(s, U)

\* The steps in the order the function pushes them.
Pushes(s, U) ==
  FromPush(s, U) \o JoinPush(s, U) \o WherePush(s, U) \o GroupByPush(s, U)
    \o HavingPush(s, U) \o SelectPush(s, U) \o OrderByPush(s, U) \o LimitPush(s, U)
    \o OffsetPush(s, U)

\* The numbering with let order = 0 in place of let order = 1.
NumberStepsFromZero(pushes) ==
  [k \in 1..Len(pushes) |->
     [order |-> k - 1, type |-> pushes[k].type, clause |-> pushes[k].clause,
      description |-> pushes[k].description]]

\* order: order++ at every push, order starting at 1: the k-th step pushed gets k.
NumberSteps(pushes) ==
  [k \in 1..Len(pushes) |->
     [order |-> k, type |-> pushes[k].type, clause |-> pushes[k].clause,
      description |-> pushes[k].description]]

\* normalizedQuery.toUpperCase().trim().startsWith('SELECT'), U being the upper-cased text
IsSelectText(U) == Only({startsWith(t, "SELECT") : t \in {trim(U)}})

\* parseExecutionOrder for the normalized text s and its upper-cased copy U.
ExecutionOrder(s, U) ==
  IF ~IsSelectText(U)
  THEN [ok |-> FALSE, steps |-> << >>, error |-> "SQL_PARSE_ERROR",
        message |-> "Execution order visualization only supports SELECT queries"]
  ELSE Only({IF steps = << >>
             THEN [ok |-> FALSE, steps |-> << >>, error |-> "SQL_PARSE_ERROR",
                   message |-> "Could not parse query execution steps"]
             ELSE [ok |-> TRUE, steps |-> steps, error |-> "", message |-> ""] :
             steps \in {NumberSteps(Pushes(s, U))}})

\* The normalized text of a query and its upper-cased copy.
Normalized(q) == {<<s, toUpperCase(s)>> : s \in {normalizeQuery(q)}}

\* parseExecutionOrder(query): the steps, or the SQLParseError it throws.
parseExecutionOrder(q) == Only({ExecutionOrder(n[1], n[2]) : n \in Normalized(q)})

(***************************************************************************)
(* SQLParserService.parseSelectQuery                                       *)
(***************************************************************************)

\* An optional field of an object: None for undefined, Some(v) otherwise.
None == << >>

Some(v) == <<v>>

\* The k-th smallest element of a finite set of integers.
Nth(S, k) == CHOOSE x \in S : Cardinality({y \in S : y < x}) = k - 1

\* String.prototype.split(','): the pieces between the commas, empty ones included.
SplitComma(s) ==
  LET commas == {i \in 1..Len(s) : Ch(s, i) = ","}
      n == Cardinality(commas)
      cut(k) == IF k = 0 THEN 0 ELSE IF k = n + 1 THEN Len(s) + 1 ELSE Nth(commas, k)
  IN [k \in 1..(n + 1) |-> Sub(s, cut(k - 1) + 1, cut(k) - 1)]

\* Filter of a sequence, keeping the order.
RECURSIVE SelectNonEmpty(_)
SelectNonEmpty(q) ==
  IF q = << >> THEN << >>
  ELSE IF Head(q) = "" THEN SelectNonEmpty(Tail(q))
  ELSE <<Head(q)>> \o SelectNonEmpty(Tail(q))

\* parseColumnList: split(',').map(trim).filter(non-empty)
parseColumnList(columnStr) ==
  LET parts == SplitComma(columnStr)
  IN SelectNonEmpty([k \in 1..Len(parts) |-> trim(parts[k])])

\* item.trim().split(/\s+/): the first two tokens of an ORDER BY item.
parseOrderByItem(item) ==
  LET it == trim(item)
      e1 == Min({j \in 1..(Len(it) + 1) : IsSpaceCh(Ch(it, j)) \/ j = Len(it) + 1})
      b2 == SkipSpaces(it, e1)
      e2 == Min({j \in b2..(Len(it) + 1) : IsSpaceCh(Ch(it, j)) \/ j = Len(it) + 1})
      second == IF b2 > Len(it) THEN "" ELSE Sub(it, b2, e2 - 1)
  IN [column |-> Sub(it, 1, e1 - 1),
      direction |-> IF toUpperCase(second) = "DESC" THEN "DESC" ELSE "ASC"]

\* parseOrderBy: one {column, direction} per comma-separated item.
parseOrderBy(orderByStr) ==
  LET parts == SplitComma(orderByStr)
  IN [k \in 1..Len(parts) |-> parseOrderByItem(parts[k])]

DigitValue(c) == CHOOSE d \in 0..9 : SubSeq(DigitChars, d + 1, d + 1) = c

\* parseInt(digits, 10) of a string of decimal digits.
RECURSIVE parseInt(_)
parseInt(ds) ==
  IF ds = "" THEN 0
  ELSE 10 * parseInt(Sub(ds, 1, Len(ds) - 1)) + DigitValue(Ch(ds, Len(ds)))

\* /^SELECT\s+DISTINCT/i.test(normalizedQuery)
DistinctRegex(s, U) ==
  KwAt(U, 1, "SELECT") /\ IsSpaceCh(Ch(s, 7)) /\ KwAt(U, SkipSpaces(s, 7), "DISTINCT")

\* /\bFROM\s+(\w+)(?:\s+(?:AS\s+)?(\w+))?/i: the table name (group 1).
FromTableRegex(s, U) ==
  LET starts == {i \in 1..Len(s) :
                   /\ WordBoundary(s, i)
                   /\ KwAt(U, i, "FROM")
                   /\ IsSpaceCh(Ch(s, i + 4))
                   /\ IsWordCh(Ch(s, SkipSpaces(s, i + 4)))}
  IN IF starts = {} THEN NoMatch
     ELSE LET c == SkipSpaces(s, Min(starts) + 4)
          IN [found |-> TRUE, g1 |-> Sub(s, c, SkipWord(s, c) - 1), g2 |-> ""]

\* parseSelectQuery(query), for a text that starts with SELECT.  The fields the data
\* flow reads are modelled: columns, isDistinct, from (the table names), where,
\* groupBy, having, orderBy, limit, offset.
SelectQuery(s, U) ==
  Only({[columns    |-> IF selectMatch.found /\ selectMatch.g2 # ""
                        THEN parseColumnList(selectMatch.g2) ELSE << >>,
         isDistinct |-> DistinctRegex(s, U),
         from       |-> IF fromMatch.found THEN <<[table |-> fromMatch.g1]>> ELSE << >>,
         where      |-> IF whereMatch.found /\ whereMatch.g1 # ""
                        THEN Some(trim(whereMatch.g1)) ELSE None,
         groupBy    |-> IF groupByMatch.found /\ groupByMatch.g1 # ""
                        THEN Some(parseColumnList(groupByMatch.g1)) ELSE None,
         having     |-> IF havingMatch.found /\ havingMatch.g1 # ""
                        THEN Some(trim(havingMatch.g1)) ELSE None,
         orderBy    |-> IF orderByMatch.found /\ orderByMatch.g1 # ""
                        THEN Some(parseOrderBy(orderByMatch.g1)) ELSE None,
         limit      |-> IF limitMatch.found /\ limitMatch.g1 # ""
                        THEN Some(parseInt(limitMatch.g1)) ELSE None,
         offset     |-> IF offsetMatch.found /\ offsetMatch.g1 # ""
                        THEN Some(parseInt(offsetMatch.g1)) ELSE None] :
        selectMatch \in {SelectRegex(s, U)},
        fromMatch \in {FromTableRegex(s, U)},
        whereMatch \in {ClauseRegex("WHERE", s, U)},
        groupByMatch \in {ClauseRegex("GROUP", s, U)},
        havingMatch \in {ClauseRegex("HAVING", s, U)},
        orderByMatch \in {ClauseRegex("ORDER", s, U)},
        limitMatch \in {NumberRegex("LIMIT", s, U)},
        offsetMatch \in {NumberRegex("OFFSET", s, U)}})

\* parseSelectQuery(query), for a query that starts with SELECT.
parseSelectQuery(q) == Only({SelectQuery(n[1], n[2]) : n \in Normalized(q)})

(***************************************************************************)
(* Values and rows                                                         *)
(*                                                                         *)
(* A JavaScript value is [t, s]: its typeof (t) and its String() text (s). *)
(* The numbers of the model are the naturals, written in decimal.  Row     *)
(* data is a JavaScript object: the sequence of its [k, v] properties in   *)
(* insertion order.                                                        *)
(***************************************************************************)

NumV(ds) == [t |-> "number", s |-> ds]

StrV(s) == [t |-> "string", s |-> s]

Undefined == [t |-> "undefined", s |-> "undefined"]

\* data[column]
Get(data, column) ==
  IF \E i \in 1..Len(data) : data[i].k = column
  THEN data[CHOOSE i \in 1..Len(data) : data[i].k = column].v
  ELSE Undefined

\* data[column] = v: an existing property keeps its place, a new one goes last.
Put(data, column, v) ==
  IF \E i \in 1..Len(data) : data[i].k = column
  THEN [i \in 1..Len(data) |-> IF data[i].k = column THEN [k |-> column, v |-> v] ELSE data[i]]
  ELSE Append(data, [k |-> column, v |-> v])

IsDigits(s) == s # "" /\ \A i \in 1..Len(s) : IsDigitCh(Ch(s, i))

\* Number(x) for a value or a text of the model: [nan, n].  A text of digits is its
\* number, an empty or blank text is 0, any other text is NaN.
NaN == [nan |-> TRUE, n |-> 0]

NumberOfText(s) ==
  LET Of(t) == IF IsDigits(t) THEN [nan |-> FALSE, n |-> parseInt(t)]
               ELSE IF t = "" THEN [nan |-> FALSE, n |-> 0]
               ELSE NaN
  IN Of(trim(s))

NumberOf(v) == IF v.t = "undefined" THEN NaN ELSE NumberOfText(v.s)

(***************************************************************************)
(* SQLVisualizationService.evaluateSimpleCondition                         *)
(***************************************************************************)

operators == <<">=", "<=", "!=", "<>", "=", ">", "<", "LIKE", "IN">>

\* new RegExp(`(\w+)\s*${op}\s*(.+)`, 'i') matched from start i with a column of k
\* characters: the operator follows the column and something follows the operator.
OpMatchAt(c, U, op, i, k) ==
  /\ \A j \in i..(i + k - 1) : IsWordCh(Ch(c, j))
  /\ KwAt(U, SkipSpaces(c, i + k), op)
  /\ SkipSpaces(c, i + k) + Len(op) <= Len(c)

\* condition.match(regex): the leftmost match, its column as long as it can be.
\* g1 is the column, g2 the text after the operator.
OpRegex(c, op) ==
  LET Rest(a) == Sub(c, IF SkipSpaces(c, a) <= Len(c) THEN SkipSpaces(c, a) ELSE Len(c),
                     Len(c))
      Groups(U, i, k) ==
        [found |-> TRUE, g1 |-> Sub(c, i, i + k - 1),
         g2 |-> Rest(SkipSpaces(c, i + k) + Len(op))]
      From(U, i) ==
        Groups(U, i, Max({k \in 1..(Len(c) - i + 1) : OpMatchAt(c, U, op, i, k)}))
      Match(U, starts) == IF starts = {} THEN NoMatch ELSE From(U, Min(starts))
      In(U) ==
        Match(U, {i \in 1..Len(c) :
                    \E k \in 1..(Len(c) - i + 1) : OpMatchAt(c, U, op, i, k)})
  IN In(toUpperCase(c))

\* if (value.startsWith("'") && value.endsWith("'")) value = value.slice(1, -1)
StripQuotes(value) ==
  IF Ch(value, 1) = "'" /\ Ch(value, Len(value)) = "'" THEN Sub(value, 2, Len(value) - 1)
  ELSE value

\* value.replace(/%/g, '.*').replace(/_/g, '.')
LikePattern(value) ==
  Join([i \in 1..Len(value) |->
          IF Ch(value, i) = "%" THEN ".*" ELSE IF Ch(value, i) = "_" THEN "." ELSE Ch(value, i)],
       1, Len(value))

\* The pattern texts whose compilation new RegExp refuses (SyntaxError): an opening
\* parenthesis or bracket that is never closed, a closing parenthesis with no
\* opening one, a trailing backslash, a leading quantifier.
Count(s, c) == Cardinality({i \in 1..Len(s) : Ch(s, i) = c})

RegExpThrows(pattern) ==
  \/ Count(pattern, "(") # Count(pattern, ")")
  \/ Count(pattern, "[") > Count(pattern, "]")
  \/ Ch(pattern, Len(pattern)) = "\\"
  \/ Ch(pattern, 1) \in {"*", "+", "?"}

\* new RegExp(`^${pattern}$`, 'i').test(text), for a pattern of literal characters,
\* `.` and `.*`: does pattern[i..] match text[j..] to its end.
RECURSIVE RegExpTest(_, _, _, _)
RegExpTest(pattern, i, text, j) ==
  IF i > Len(pattern) THEN j > Len(text)
  ELSE IF Ch(pattern, i) = "." /\ Ch(pattern, i + 1) = "*"
       THEN \E n \in j..(Len(text) + 1) : RegExpTest(pattern, i + 2, text, n)
  ELSE IF j > Len(text) THEN FALSE
  ELSE /\ (Ch(pattern, i) = "." \/ UpperCh(Ch(pattern, i)) = UpperCh(Ch(text, j)))
       /\ RegExpTest(pattern, i + 1, text, j + 1)

\* The switch over the operator, on the column's value and the unquoted text.
Compare(op, columnValue, value) ==
  LET On(l, r) ==
        LET strictNumEq == columnValue.t = "number" /\ ~r.nan /\ l.n = r.n
        IN CASE op = "="    -> columnValue.s = value \/ strictNumEq
             [] op = "!="   -> columnValue.s # value /\ ~strictNumEq
             [] op = "<>"   -> columnValue.s # value /\ ~strictNumEq
             [] op = ">"    -> ~l.nan /\ ~r.nan /\ l.n > r.n
             [] op = "<"    -> ~l.nan /\ ~r.nan /\ l.n < r.n
             [] op = ">="   -> ~l.nan /\ ~r.nan /\ l.n >= r.n
             [] op = "<="   -> ~l.nan /\ ~r.nan /\ l.n <= r.n
             [] op = "LIKE" -> RegExpTest(LikePattern(value), 1, columnValue.s, 1)
             [] OTHER       -> TRUE
  IN On(NumberOf(columnValue), NumberOfText(value))

\* condition.split(/\s+AND\s+/i) and condition.split(/\s+OR\s+/i)
RECURSIVE SplitWord(_, _)
SplitWord(c, w) ==
  LET At(i) ==
        <<Sub(c, 1, i - 1)>>
          \o SplitWord(Sub(c, SkipSpaces(c, SkipSpaces(c, i) + Len(w)), Len(c)), w)
      Cut(cuts) == IF cuts = {} THEN <<c>> ELSE At(Min(cuts))
      In(U) ==
        Cut({i \in 1..Len(c) :
               /\ IsSpaceCh(Ch(c, i))
               /\ KwAt(U, SkipSpaces(c, i), w)
               /\ IsSpaceCh(Ch(c, SkipSpaces(c, i) + Len(w)))})
  IN In(toUpperCase(c))

\* String.prototype.includes
includes(s, w) == \E i \in 1..Len(s) : KwAt(s, i, w)

\* The first operator, in the order of the list, whose pattern matches; 0 if none.
FirstOperator(condition) ==
  LET First(hits) == IF hits = {} THEN 0 ELSE Min(hits)
  IN First({n \in 1..Len(operators) : OpRegex(condition, operators[n]).found})

\* Whether evaluating the condition throws: a LIKE whose pattern does not compile.
ConditionThrows(condition) ==
  LET Like(n) == n # 0 /\ operators[n] = "LIKE"
  IN /\ Like(FirstOperator(condition))
     /\ RegExpThrows(LikePattern(StripQuotes(trim(OpRegex(condition, "LIKE").g2))))

\* evaluateSimpleCondition excluding the row when it cannot parse the condition.
evaluateSimpleConditionFailClosed(data, condition) ==
  LET With(n) ==
        IF n # 0
        THEN Compare(operators[n], Get(data, OpRegex(condition, operators[n]).g1),
                     StripQuotes(trim(OpRegex(condition, operators[n]).g2)))
        ELSE FALSE
  IN With(FirstOperator(condition))

\* evaluateSimpleCondition(data, condition), for a condition that does not throw.
RECURSIVE evaluateSimpleCondition(_, _)
evaluateSimpleCondition(data, condition) ==
  LET Matched(op, m) == Compare(op, Get(data, m.g1), StripQuotes(trim(m.g2)))
      AllOf(parts) == \A k \in 1..Len(parts) : evaluateSimpleCondition(data, parts[k])
      AnyOf(parts) == \E k \in 1..Len(parts) : evaluateSimpleCondition(data, parts[k])
      Logical(U) ==
        IF includes(U, " AND ") THEN AllOf(SplitWord(condition, "AND"))
        ELSE IF includes(U, " OR ") THEN AnyOf(SplitWord(condition, "OR"))
        ELSE TRUE
      With(n) ==
        IF n # 0 THEN Matched(operators[n], OpRegex(condition, operators[n]))
        ELSE Logical(toUpperCase(condition))
  IN With(FirstOperator(condition))

(***************************************************************************)
(* SQLVisualizationService: the row operations of the data flow            *)
(*                                                                         *)
(* RowState objects live in a heap (a sequence; a reference is an index),  *)
(* and an array of rows is a sequence of references: `[...rows]` and       *)
(* rows.map share the row objects they do not replace.  A RowState is      *)
(* [data, included, excludedReason, rid]; excludedReason is NoReason while *)
(* the property is undefined, and rid is the index of the row in the table *)
(* data it was loaded from (the identity of the row, kept by the model to  *)
(* follow a row through the steps; the code has no such field).            *)
(***************************************************************************)

NoReason == ""

\* The decimal text of a natural number.
RECURSIVE NatToString(_)
NatToString(n) ==
  IF n < 10 THEN SubSeq(DigitChars, n + 1, n + 1)
  ELSE NatToString(n \div 10) \o SubSeq(DigitChars, (n % 10) + 1, (n % 10) + 1)

\* rows.map(f): position i keeps its object where same[i], and gets the new object
\* img[i], allocated at the end of the heap, elsewhere.
MapRows(h, rows, same, img) ==
  LET fresh == {i \in 1..Len(rows) : ~same[i]}
  IN [heap |-> h \o [n \in 1..Cardinality(fresh) |-> img[Nth(fresh, n)]],
      rows |-> [i \in 1..Len(rows) |->
                  IF same[i] THEN rows[i]
                  ELSE Len(h) + Cardinality({j \in fresh : j <= i})]]

\* tableData.rows.map((row) => ({data: row, included: true}))
LoadRows(h, tableRows) ==
  [heap |-> h \o [i \in 1..Len(tableRows) |->
                    [data |-> tableRows[i], included |-> TRUE,
                     excludedReason |-> NoReason, rid |-> i]],
   rows |-> [i \in 1..Len(tableRows) |-> Len(h) + i]]

\* applyWhereFilter giving a reason that does not name the clause.
applyWhereFilterWithoutClause(h, rows, whereClause) ==
  MapRows(h, rows,
          [i \in 1..Len(rows) |-> ~h[rows[i]].included],
          [i \in 1..Len(rows) |->
             LET isMatch == evaluateSimpleCondition(h[rows[i]].data, whereClause)
             IN [h[rows[i]] EXCEPT
                   !.included = isMatch,
                   !.excludedReason = IF isMatch THEN NoReason ELSE "Does not match"]])

\* applyWhereFilter(rows, whereClause): an excluded row is returned as it is, an
\* included one is replaced by a copy carrying the verdict.
applyWhereFilter(h, rows, whereClause) ==
  MapRows(h, rows,
          [i \in 1..Len(rows) |-> ~h[rows[i]].included],
          [i \in 1..Len(rows) |->
             LET isMatch == evaluateSimpleCondition(h[rows[i]].data, whereClause)
             IN [h[rows[i]] EXCEPT
                   !.included = isMatch,
                   !.excludedReason = IF isMatch THEN NoReason
                                      ELSE "Does not match: " \o whereClause]])

\* applyHavingFilter without its first line (if (!row.included) return row): the
\* condition is evaluated on every row.
applyHavingFilterOnEveryRow(h, rows, havingClause) ==
  MapRows(h, rows,
          [i \in 1..Len(rows) |-> FALSE],
          [i \in 1..Len(rows) |->
             LET isMatch == evaluateSimpleCondition(h[rows[i]].data, havingClause)
             IN [h[rows[i]] EXCEPT
                   !.included = isMatch,
                   !.excludedReason = IF isMatch THEN NoReason
                                      ELSE "Does not match HAVING: " \o havingClause]])

\* applyHavingFilter(rows, havingClause)
applyHavingFilter(h, rows, havingClause) ==
  MapRows(h, rows,
          [i \in 1..Len(rows) |-> ~h[rows[i]].included],
          [i \in 1..Len(rows) |->
             LET isMatch == evaluateSimpleCondition(h[rows[i]].data, havingClause)
             IN [h[rows[i]] EXCEPT
                   !.included = isMatch,
                   !.excludedReason = IF isMatch THEN NoReason
                                      ELSE "Does not match HAVING: " \o havingClause]])

\* col.match(/(.+)\s+AS\s+(\w+)/i): the greedy first group reaches the last " AS "
\* that a word follows.  g1 is the source text, g2 the alias.
AliasRegex(col) ==
  LET U == toUpperCase(col)
      cuts == {i \in 2..Len(col) :
                 /\ IsSpaceCh(Ch(col, i))
                 /\ KwAt(U, SkipSpaces(col, i), "AS")
                 /\ IsSpaceCh(Ch(col, SkipSpaces(col, i) + 2))
                 /\ IsWordCh(Ch(col, SkipSpaces(col, SkipSpaces(col, i) + 2)))}
  IN IF cuts = {} THEN NoMatch
     ELSE LET i == Max(cuts)
              a == SkipSpaces(col, SkipSpaces(col, i) + 2)
          IN [found |-> TRUE, g1 |-> Sub(col, 1, i - 1), g2 |-> Sub(col, a, SkipWord(col, a) - 1)]

\* resolveSelectedColumns(selected, available)
resolveSelectedColumns(selected, available) ==
  IF Len(selected) = 1 /\ selected[1] = "*" THEN available
  ELSE [k \in 1..Len(selected) |->
          IF AliasRegex(selected[k]).found THEN AliasRegex(selected[k]).g2 ELSE selected[k]]

\* Object.assign(target, source)
RECURSIVE ObjectAssign(_, _)
ObjectAssign(target, source) ==
  IF source = << >> THEN target
  ELSE ObjectAssign(Put(target, Head(source).k, Head(source).v), Tail(source))

\* The loop of projectColumns over the columns, building projectedData.
RECURSIVE ProjectData(_, _, _)
ProjectData(projected, data, columns) ==
  IF columns = << >> THEN projected
  ELSE LET col == Head(columns)
           m == AliasRegex(col)
           next == IF m.found
                   THEN (IF trim(m.g1) # "" /\ m.g2 # ""
                         THEN Put(projected, m.g2, Get(data, trim(m.g1)))
                         ELSE projected)
                   ELSE IF col = "*" THEN ObjectAssign(projected, data)
                   ELSE Put(projected, col, Get(data, col))
       IN ProjectData(next, data, Tail(columns))

\* projectColumns(rows, columns): every row is replaced by a copy with the new data.
projectColumns(h, rows, columns) ==
  MapRows(h, rows,
          [i \in 1..Len(rows) |-> FALSE],
          [i \in 1..Len(rows) |->
             [h[rows[i]] EXCEPT !.data = ProjectData(<< >>, h[rows[i]].data, columns)]])

\* JSON.stringify of a value: a property whose value is undefined is left out.
JsonValue(v) == IF v.t = "number" THEN v.s ELSE "\"" \o v.s \o "\""

JsonStringify(data) ==
  LET shown == {i \in 1..Len(data) : data[i].v.t # "undefined"}
  IN "{" \o Join([n \in 1..Cardinality(shown) |->
                    (IF n = 1 THEN "" ELSE ",") \o "\"" \o data[Nth(shown, n)].k \o "\":"
                      \o JsonValue(data[Nth(shown, n)].v)],
                 1, Cardinality(shown)) \o "}"

\* applyDistinct keeping the last row of equal rows instead of the first.
applyDistinctKeepingLast(h, rows) ==
  LET key(i) == JsonStringify(h[rows[i]].data)
      dup(i) == /\ h[rows[i]].included
                /\ \E j \in (i + 1)..Len(rows) : h[rows[j]].included /\ key(j) = key(i)
  IN MapRows(h, rows,
             [i \in 1..Len(rows) |-> ~dup(i)],
             [i \in 1..Len(rows) |->
                [h[rows[i]] EXCEPT !.included = FALSE,
                                   !.excludedReason = "Duplicate row removed by DISTINCT"]])

\* applyDistinct(rows): an included row whose key an earlier included row has is
\* replaced by an excluded copy; every other row is returned as it is.
applyDistinct(h, rows) ==
  LET key(i) == JsonStringify(h[rows[i]].data)
      dup(i) == /\ h[rows[i]].included
                /\ \E j \in 1..(i - 1) : h[rows[j]].included /\ key(j) = key(i)
  IN MapRows(h, rows,
             [i \in 1..Len(rows) |-> ~dup(i)],
             [i \in 1..Len(rows) |->
                [h[rows[i]] EXCEPT !.included = FALSE,
                                   !.excludedReason = "Duplicate row removed by DISTINCT"]])

\* The collation of String.prototype.localeCompare for the texts of the model
\* (letters, digits, underscore): digits sort before letters, letters
\* alphabetically whatever their case, and of two texts that differ only in case
\* the one with the lower-case letter at the first difference sorts first.
CollationChars == "_0123456789ABCDEFGHIJKLMNOPQRSTUVWXYZ"

Rank(c) ==
  IF \E i \in 1..Len(CollationChars) : SubSeq(CollationChars, i, i) = UpperCh(c)
  THEN CHOOSE i \in 1..Len(CollationChars) : SubSeq(CollationChars, i, i) = UpperCh(c)
  ELSE 0

\* -1, 0 or 1
localeCompare(a, b) ==
  LET n == IF Len(a) < Len(b) THEN Len(a) ELSE Len(b)
      primary == {i \in 1..n : Rank(Ch(a, i)) # Rank(Ch(b, i))}
      cased == {i \in 1..n : Ch(a, i) # Ch(b, i)}
  IN IF primary # {}
     THEN (IF Rank(Ch(a, Min(primary))) < Rank(Ch(b, Min(primary))) THEN -1 ELSE 1)
     ELSE IF Len(a) # Len(b) THEN (IF Len(a) < Len(b) THEN -1 ELSE 1)
     ELSE IF cased = {} THEN 0
     ELSE IF UpperCh(Ch(a, Min(cased))) = Ch(b, Min(cased)) THEN -1 ELSE 1

\* The comparison of two values by the sort callback: aVal - bVal for two numbers,
\* String(aVal).localeCompare(String(bVal)) otherwise; its sign.
CompareValues(aVal, bVal) ==
  IF aVal.t = "number" /\ bVal.t = "number"
  THEN (IF parseInt(aVal.s) < parseInt(bVal.s) THEN -1
        ELSE IF parseInt(aVal.s) > parseInt(bVal.s) THEN 1 ELSE 0)
  ELSE localeCompare(aVal.s, bVal.s)

\* The sort callback: the first key on which the rows differ decides.
RECURSIVE CompareRows(_, _, _)
CompareRows(a, b, orderBy) ==
  IF orderBy = << >> THEN 0
  ELSE LET comparison == CompareValues(Get(a.data, Head(orderBy).column),
                                       Get(b.data, Head(orderBy).column))
       IN IF comparison # 0
          THEN (IF Head(orderBy).direction = "DESC" THEN -comparison ELSE comparison)
          ELSE CompareRows(a, b, Tail(orderBy))

\* A sort that puts the rows that compare equal in the reverse of their order.
SortTiesReversed(h, rows, orderBy) ==
  LET cmp(i, j) == CompareRows(h[rows[i]], h[rows[j]], orderBy)
      place(i) == 1 + Cardinality({j \in 1..Len(rows) :
                                     cmp(j, i) < 0 \/ (cmp(j, i) = 0 /\ j > i)})
  IN [p \in 1..Len(rows) |-> rows[CHOOSE i \in 1..Len(rows) : place(i) = p]]

\* Array.prototype.sort with a callback: a stable sort.  Position i of the input
\* goes after every position that compares lower, and after the earlier positions
\* that compare equal.
StableSort(h, rows, orderBy) ==
  LET cmp(i, j) == CompareRows(h[rows[i]], h[rows[j]], orderBy)
      place(i) == 1 + Cardinality({j \in 1..Len(rows) :
                                     cmp(j, i) < 0 \/ (cmp(j, i) = 0 /\ j < i)})
  IN [p \in 1..Len(rows) |-> rows[CHOOSE i \in 1..Len(rows) : place(i) = p]]

\* applyOrderBy(rows, orderBy): [...rows].sort(...), a sorted copy of the array; the
\* row objects are shared and none is changed.
applyOrderBy(h, rows, orderBy) == [heap |-> h, rows |-> StableSort(h, rows, orderBy)]

\* includedCount when the callback of applyLimit / applyOffset handles position i.
IncludedCount(h, rows, i) == Cardinality({j \in 1..i : h[rows[j]].included})

\* applyLimit comparing with >= instead of >: one row less than the limit stays.
applyLimitOneLess(h, rows, limit) ==
  MapRows(h, rows,
          [i \in 1..Len(rows) |-> ~h[rows[i]].included \/ IncludedCount(h, rows, i) < limit],
          [i \in 1..Len(rows) |->
             [h[rows[i]] EXCEPT !.included = FALSE,
                                !.excludedReason = "Excluded by LIMIT " \o NatToString(limit)]])

\* applyLimit(rows, limit): an included row beyond the limit is replaced by an
\* excluded copy; every other row is returned as it is.
applyLimit(h, rows, limit) ==
  MapRows(h, rows,
          [i \in 1..Len(rows) |-> ~h[rows[i]].included \/ IncludedCount(h, rows, i) <= limit],
          [i \in 1..Len(rows) |->
             [h[rows[i]] EXCEPT !.included = FALSE,
                                !.excludedReason = "Excluded by LIMIT " \o NatToString(limit)]])

\* applyOffset setting row.included and row.excludedReason on the row objects
\* themselves instead of returning copies.
applyOffsetInPlace(h, rows, offset) ==
  [heap |-> [r \in 1..Len(h) |->
               IF \E i \in 1..Len(rows) :
                    rows[i] = r /\ h[r].included /\ IncludedCount(h, rows, i) <= offset
               THEN [h[r] EXCEPT !.included = FALSE,
                                 !.excludedReason = "Skipped by OFFSET " \o NatToString(offset)]
               ELSE h[r]],
   rows |-> rows]

\* applyOffset comparing with < instead of <=: one row less is skipped.
applyOffsetOneLess(h, rows, offset) ==
  MapRows(h, rows,
          [i \in 1..Len(rows) |-> ~h[rows[i]].included \/ IncludedCount(h, rows, i) >= offset],
          [i \in 1..Len(rows) |->
             [h[rows[i]] EXCEPT !.included = FALSE,
                                !.excludedReason = "Skipped by OFFSET " \o NatToString(offset)]])

\* applyOffset(rows, offset): the first `offset` included rows are replaced by
\* excluded copies; every other row is returned as it is.
applyOffset(h, rows, offset) ==
  MapRows(h, rows,
          [i \in 1..Len(rows) |-> ~h[rows[i]].included \/ IncludedCount(h, rows, i) > offset],
          [i \in 1..Len(rows) |->
             [h[rows[i]] EXCEPT !.included = FALSE,
                                !.excludedReason = "Skipped by OFFSET " \o NatToString(offset)]])

\* A createDataFlowStep that numbers the steps from zero instead of taking the
\* execution step's own order.
createDataFlowStepFromZero(executionStep, h, rows, columns) ==
  [stepOrder   |-> executionStep.order - 1,
   stepType    |-> executionStep.type,
   rows        |-> rows,
   columns     |-> columns,
   description |-> executionStep.description,
   stats       |-> [totalRows    |-> Len(rows),
                    includedRows |-> Cardinality({i \in 1..Len(rows) : h[rows[i]].included}),
                    excludedRows |-> Cardinality({i \in 1..Len(rows) : ~h[rows[i]].included})]]

\* createDataFlowStep(executionStep, rows, columns): rows and columns are copies of
\* the arrays (the row objects are shared), the statistics are counted now.
createDataFlowStep(executionStep, h, rows, columns) ==
  [stepOrder   |-> executionStep.order,
   stepType    |-> executionStep.type,
   rows        |-> rows,
   columns     |-> columns,
   description |-> executionStep.description,
   stats       |-> [totalRows    |-> Len(rows),
                    includedRows |-> Cardinality({i \in 1..Len(rows) : h[rows[i]].included}),
                    excludedRows |-> Cardinality({i \in 1..Len(rows) : ~h[rows[i]].included})]]

\* executionSteps.find((s) => s.type === type): None or Some(step).
FindStep(steps, type) ==
  IF \E i \in 1..Len(steps) : steps[i].type = type
  THEN Some(steps[Min({i \in 1..Len(steps) : steps[i].type = type})])
  ELSE None

\* executionSteps.filter((s) => s.type === 'JOIN')
RECURSIVE FilterSteps(_, _)
FilterSteps(steps, type) ==
  IF steps = << >> THEN << >>
  ELSE IF Head(steps).type = type THEN <<Head(steps)>> \o FilterSteps(Tail(steps), type)
  ELSE FilterSteps(Tail(steps), type)

\* joinStep.clause.match(/JOIN\s+`?(\w+)`?/i): the joined table (group 1).  The
\* texts of the model hold no backquote, so the optional quotes match nothing.
JoinTableRegex(clause) ==
  LET U == toUpperCase(clause)
      nameAt(i) == SkipSpaces(clause, i + 4)
      starts == {i \in 1..Len(clause) :
                   /\ KwAt(U, i, "JOIN")
                   /\ IsSpaceCh(Ch(clause, i + 4))
                   /\ IsWordCh(Ch(clause, nameAt(i)))}
  IN IF starts = {} THEN NoMatch
     ELSE LET c == nameAt(Min(starts))
          IN [found |-> TRUE, g1 |-> Sub(clause, c, SkipWord(clause, c) - 1), g2 |-> ""]

\* SQLParserService.detectStatementType
detectStatementType(q) ==
  LET n == trim(toUpperCase(normalizeQuery(q)))
  IN IF startsWith(n, "SELECT") THEN "SELECT"
     ELSE IF startsWith(n, "INSERT") THEN "INSERT"
     ELSE IF startsWith(n, "UPDATE") THEN "UPDATE"
     ELSE IF startsWith(n, "DELETE") THEN "DELETE"
     ELSE IF startsWith(n, "CREATE TABLE") THEN "CREATE TABLE"
     ELSE IF startsWith(n, "DROP TABLE") THEN "DROP TABLE"
     ELSE IF startsWith(n, "ALTER TABLE") THEN "ALTER TABLE"
     ELSE IF startsWith(n, "CREATE INDEX") THEN "CREATE INDEX"
     ELSE "UNKNOWN"

(***************************************************************************)
(* The database behind SQLRepository (an external collaborator): the       *)
(* tables of the session's schema.  `users` and `books` hold the first     *)
(* tableSize rows of a fixed catalogue, `cs` is a second table for joins,  *)
(* `ks` holds the ids 1, 1, 2 and `fs` the ids 1 to 5.                     *)
(***************************************************************************)

\* The largest number of rows of the primary table.
MaxRows == 3

CatalogueRow(i) ==
  <<[k |-> "id", v |-> NumV(NatToString((i % 3) + 1))],
    [k |-> "name", v |-> StrV(IF i % 2 = 1 THEN "amy" ELSE "bob")]>>

TableNames == {"users", "books", "cs", "ks", "fs"}

\* repository.getTableData(table) for a table of the schema: {columns, rows}.
TableData(table, size) ==
  IF table = "cs"
  THEN [columns |-> <<"id", "title">>,
        rows |-> <<<<[k |-> "id", v |-> NumV("1")], [k |-> "title", v |-> StrV("sql")]>>>>]
  ELSE IF table = "ks"
  THEN [columns |-> <<"id">>,
        rows |-> [i \in 1..3 |-> <<[k |-> "id", v |-> NumV(IF i = 3 THEN "2" ELSE "1")]>>]]
  ELSE IF table = "fs"
  THEN [columns |-> <<"id">>,
        rows |-> [i \in 1..5 |-> <<[k |-> "id", v |-> NumV(NatToString(i))]>>]]
  ELSE [columns |-> <<"id", "name">>, rows |-> [i \in 1..size |-> CatalogueRow(i)]]

(***************************************************************************)
(* SQLParserService.parseCreateTable                                       *)
(***************************************************************************)

\* The first position at or after i that holds whitespace (Len(s)+1 at the end).
SkipToken(s, i) ==
  IF i > Len(s) THEN i
  ELSE CHOOSE j \in i..(Len(s) + 1) :
         (j = Len(s) + 1 \/ IsSpaceCh(Ch(s, j)))
           /\ \A k \in i..(j - 1) : ~IsSpaceCh(Ch(s, k))

\* /CREATE\s+TABLE\s+(?:IF\s+NOT\s+EXISTS\s+)?(\w+)/i: the table name (group 1).
\* NameAt(p) is where the name starts when TABLE\s+ ends at p: after IF NOT EXISTS
\* when a word follows these, at p otherwise; 0 when no word stands there.
TableNameRegex(s, U) ==
  LET After(p, kw) ==
        IF p > 0 /\ KwAt(U, p, kw) /\ IsSpaceCh(Ch(s, p + Len(kw)))
        THEN SkipSpaces(s, p + Len(kw)) ELSE 0
      NameAt(p) ==
        IF p = 0 THEN 0
        ELSE IF IsWordCh(Ch(s, After(After(After(p, "IF"), "NOT"), "EXISTS")))
        THEN After(After(After(p, "IF"), "NOT"), "EXISTS")
        ELSE IF IsWordCh(Ch(s, p)) THEN p ELSE 0
      starts == {i \in 1..Len(s) : NameAt(After(After(i, "CREATE"), "TABLE")) > 0}
      Name(c) == [found |-> TRUE, g1 |-> Sub(s, c, SkipWord(s, c) - 1), g2 |-> ""]
  IN IF starts = {} THEN NoMatch
     ELSE Name(NameAt(After(After(Min(starts), "CREATE"), "TABLE")))

\* /\(([^)]+)\)/: from the first opening parenthesis that a character other than
\* a closing one follows, up to the FIRST closing parenthesis after it.
ColumnsRegex(s) ==
  LET starts == {i \in 1..Len(s) :
                   /\ Ch(s, i) = "(" /\ i < Len(s) /\ Ch(s, i + 1) # ")"
                   /\ \E j \in (i + 2)..Len(s) : Ch(s, j) = ")"}
      Group(i) == Sub(s, i + 1, Min({j \in (i + 2)..Len(s) : Ch(s, j) = ")"}) - 1)
  IN IF starts = {} THEN NoMatch
     ELSE [found |-> TRUE, g1 |-> Group(Min(starts)), g2 |-> ""]

\* parenDepth after the first i characters of columnsStr.
ParenDepth(columnsStr, i) ==
  Cardinality({k \in 1..i : Ch(columnsStr, k) = "("})
    - Cardinality({k \in 1..i : Ch(columnsStr, k) = ")"})

\* splitColumnDefinitions(columnsStr): the pieces between the commas met at
\* parenDepth 0; the last piece is pushed only if it is not blank.
splitColumnDefinitions(columnsStr) ==
  LET commas == {i \in 1..Len(columnsStr) :
                   Ch(columnsStr, i) = "," /\ ParenDepth(columnsStr, i - 1) = 0}
      Pieces(n) ==
        [k \in 1..(n + 1) |->
           Sub(columnsStr, (IF k = 1 THEN 0 ELSE Nth(commas, k - 1)) + 1,
               (IF k = n + 1 THEN Len(columnsStr) + 1 ELSE Nth(commas, k)) - 1)]
      Result(pieces) ==
        IF trim(pieces[Len(pieces)]) = "" THEN SubSeq(pieces, 1, Len(pieces) - 1)
        ELSE pieces
  IN Result(Pieces(Cardinality(commas)))

\* /^(PRIMARY\s+KEY|FOREIGN\s+KEY|UNIQUE|CHECK|CONSTRAINT)/i.test(trimmedDef)
IsTableConstraint(trimmedDef) ==
  LET Two(U, first, second) ==
        /\ KwAt(U, 1, first)
        /\ IsSpaceCh(Ch(trimmedDef, Len(first) + 1))
        /\ KwAt(U, SkipSpaces(trimmedDef, Len(first) + 1), second)
      Test(U) ==
        \/ Two(U, "PRIMARY", "KEY") \/ Two(U, "FOREIGN", "KEY")
        \/ KwAt(U, 1, "UNIQUE") \/ KwAt(U, 1, "CHECK") \/ KwAt(U, 1, "CONSTRAINT")
  IN Test(toUpperCase(trimmedDef))

\* def.match(/DEFAULT\s+([^\s,]+)/i)
DefaultRegex(def, U) ==
  LET starts == {i \in 1..Len(def) :
                   /\ KwAt(U, i, "DEFAULT") /\ IsSpaceCh(Ch(def, i + 7))
                   /\ SkipSpaces(def, i + 7) <= Len(def)
                   /\ Ch(def, SkipSpaces(def, i + 7)) # ","}
      Value(c) ==
        Sub(def, c, Min({j \in c..(Len(def) + 1) :
                           j = Len(def) + 1 \/ IsSpaceCh(Ch(def, j)) \/ Ch(def, j) = ","}) - 1)
  IN IF starts = {} THEN None ELSE Some(Value(SkipSpaces(def, Min(starts) + 7)))

\* def.match(/REFERENCES\s+`?(\w+)`?\s*\(`?(\w+)`?\)/i): table (group 1) and column
\* (group 2).  The texts of the model hold no backquote.
ReferencesRegex(def, U) ==
  LET TableAt(i) == SkipSpaces(def, i + 10)
      Open(i) == SkipSpaces(def, SkipWord(def, TableAt(i)))
      starts == {i \in 1..Len(def) :
                   /\ KwAt(U, i, "REFERENCES") /\ IsSpaceCh(Ch(def, i + 10))
                   /\ IsWordCh(Ch(def, TableAt(i)))
                   /\ Ch(def, Open(i)) = "("
                   /\ IsWordCh(Ch(def, Open(i) + 1))
                   /\ Ch(def, SkipWord(def, Open(i) + 1)) = ")"}
      Ref(i) == [table |-> Sub(def, TableAt(i), SkipWord(def, TableAt(i)) - 1),
                 column |-> Sub(def, Open(i) + 1, SkipWord(def, Open(i) + 1) - 1)]
  IN IF starts = {} THEN None ELSE Some(Ref(Min(starts)))

\* parseColumnDefinition(def): None for null, Some(column) otherwise.  parts[0] and
\* parts[1] are the first two tokens of def.trim().split(/\s+/).
parseColumnDefinition(def) ==
  LET Column(d, U, typeAt) ==
        IF d = "" \/ typeAt > Len(d) THEN None
        ELSE Some([name |-> Sub(d, 1, SkipToken(d, 1) - 1),
                   type |-> Sub(d, typeAt, SkipToken(d, typeAt) - 1),
                   isPrimaryKey |-> includes(U, "PRIMARY KEY"),
                   isForeignKey |-> includes(U, "REFERENCES"),
                   isNotNull |-> includes(U, "NOT NULL"),
                   isUnique |-> includes(U, "UNIQUE"),
                   defaultValue |-> DefaultRegex(d, U),
                   references |-> ReferencesRegex(d, U)])
      Parsed(d) == Column(d, toUpperCase(d), SkipSpaces(d, SkipToken(d, 1)))
  IN Parsed(trim(def))

\* parseColumnDefinitions(columnsStr): the columns of the definitions that are no
\* table-level constraint and that parse.
RECURSIVE ColumnsOf(_)
ColumnsOf(columnDefs) ==
  IF columnDefs = << >> THEN << >>
  ELSE (IF IsTableConstraint(trim(Head(columnDefs))) THEN << >>
        ELSE parseColumnDefinition(trim(Head(columnDefs))))
         \o ColumnsOf(Tail(columnDefs))

parseColumnDefinitions(columnsStr) == ColumnsOf(splitColumnDefinitions(columnsStr))

\* parseCreateTable for the normalized text s and its upper-cased copy U.
CreateTable(s, U) ==
  LET Parsed(tableNameMatch, columnsMatch) ==
        IF ~(tableNameMatch.found /\ tableNameMatch.g1 # "")
        THEN [ok |-> FALSE, error |-> "SQL_PARSE_ERROR",
              message |-> "Could not parse table name from CREATE TABLE",
              tableName |-> "", columns |-> << >>]
        ELSE IF ~(columnsMatch.found /\ columnsMatch.g1 # "")
        THEN [ok |-> FALSE, error |-> "SQL_PARSE_ERROR",
              message |-> "Could not parse column definitions",
              tableName |-> "", columns |-> << >>]
        ELSE [ok |-> TRUE, error |-> "", message |-> "",
              tableName |-> tableNameMatch.g1,
              columns |-> parseColumnDefinitions(columnsMatch.g1)]
  IN Parsed(TableNameRegex(s, U), ColumnsRegex(s))

\* parseCreateTable(query): the parsed statement, or the SQLParseError it throws.
parseCreateTable(q) == Only({CreateTable(n[1], n[2]) : n \in Normalized(q)})

(***************************************************************************)
(* SQLExecutionService: the statement splitter                             *)
(***************************************************************************)

\* const hasSemicolons = sql.includes(';')
hasSemicolons(sql) == includes(sql, ";")

\* The test without prevChar !== '\\': a quote after a backslash counts as well.
IsQuoteIgnoringEscape(char, prevChar) == char \in {"'", "\""}

\* (char === "'" || char === '"') && prevChar !== '\\': the character is a quote
\* that opens or closes a string.
IsQuote(char, prevChar) == char \in {"'", "\""} /\ prevChar # "\\"

\* The string-literal handling without its branch else if (char === stringChar):
\* a literal once opened is never closed.
NextInStringNeverClosed(char, prevChar, inStr, strChar) ==
  IsQuote(char, prevChar) \/ inStr

\* inString after the string-literal handling of one character.
NextInString(char, prevChar, inStr, strChar) ==
  IF IsQuote(char, prevChar) THEN (IF ~inStr THEN TRUE ELSE char # strChar) ELSE inStr

\* stringChar after the string-literal handling of one character.
NextStringChar(char, prevChar, inStr, strChar) ==
  IF IsQuote(char, prevChar) /\ ~inStr THEN char ELSE strChar

\* char === ';' && !inString
IsSplitPoint(char, inStr) == char = ";" /\ ~inStr

\* statements.filter((s) => s.length > 0)
FilterNonEmpty(stmts) == SelectNonEmpty(stmts)

\* sql.split(/\r?\n/): the lines, a line feed (with the carriage return before it,
\* if any) being the separator.
SplitLines(sql) ==
  LET feeds == {i \in 1..Len(sql) : Ch(sql, i) = "\n"}
      n == Cardinality(feeds)
      from(k) == IF k = 1 THEN 1 ELSE Nth(feeds, k - 1) + 1
      feed(k) == IF k = n + 1 THEN Len(sql) + 1 ELSE Nth(feeds, k)
      to(k) == IF k <= n /\ Ch(sql, feed(k) - 1) = "\r" /\ feed(k) - 1 >= from(k)
               THEN feed(k) - 2 ELSE feed(k) - 1
  IN [k \in 1..(n + 1) |-> Sub(sql, from(k), to(k))]

statementStarters ==
  {"SELECT", "INSERT", "UPDATE", "DELETE", "CREATE", "DROP", "ALTER", "TRUNCATE", "WITH",
   "SET", "SHOW", "DESCRIBE", "EXPLAIN", "USE", "GRANT", "REVOKE"}

\* The test without the flag i: only keywords in upper case start a statement.
StartsStatementCaseSensitive(line) ==
  \E kw \in statementStarters :
    /\ KwAt(line, 1, kw)
    /\ WordBoundary(line, Len(kw) + 1)

\* /^(SELECT|INSERT|...|REVOKE)\b/i.test(line)
StartsStatement(line) ==
  \E kw \in statementStarters :
    /\ KwAt(toUpperCase(line), 1, kw)
    /\ WordBoundary(line, Len(kw) + 1)

(***************************************************************************)
(* The state                                                               *)
(*                                                                         *)
(* One visualization request (query, tableSize .. finalResult) and one     *)
(* run of the statement splitter (script .. cuts).                         *)
(***************************************************************************)

VARIABLES
  query,            \* the query of the request
  tableSize,        \* the number of rows the tables `users` and `books` hold
  pc,               \* where the request is
  outcome,          \* "" while running, "ok", or the code of the error thrown
  executionSteps,   \* the result of parseExecutionOrder
  parsedQuery,      \* the result of parseSelectQuery
  heap,             \* the RowState objects allocated so far
  currentRows,      \* generateDataFlow: currentRows (references into heap)
  currentColumns,   \* generateDataFlow: currentColumns
  dataFlow,         \* generateDataFlow: dataFlow
  joinIdx,          \* the position of the JOIN loop in joinSteps
  dbCalls,          \* the calls made on the repository, in order
  finalResult,      \* the result of executeFinalQuery
  script,           \* the script given to splitStatements
  entries,          \* how the script was written: its lines and their roles
  mode,             \* where the splitter is
  pos,              \* the loop index (a character or a line of the script)
  current,          \* splitBySemicolon: current
  inString,         \* splitBySemicolon: inString
  stringChar,       \* splitBySemicolon: stringChar
  lines,            \* splitByNewline: lines
  currentStatement, \* splitByNewline: currentStatement
  statements,       \* the array `statements` of the running splitter
  cuts,             \* the positions of the semicolons the scan split at
  result,           \* what splitStatements returned: None until it returns
  createWritten,    \* how that text was written: its column definitions
  createQuery,      \* the text given to parseCreateTable
  createStatement,  \* what parseCreateTable answered: None until it returns
  evalWritten,      \* how the condition was written: its comparisons, their joiner
  evalRow,          \* the row data given to evaluateSimpleCondition
  evalCondition,    \* the condition given to evaluateSimpleCondition
  evalResult,       \* what the evaluation gave: None until it ends
  multiAt,          \* where executeMultipleSQL is
  stmtIdx,          \* executeMultipleSQL: the position of the loop in statements
  submitted,        \* the statements sent to the database, in order
  results,          \* executeMultipleSQL: results
  now,              \* the time (Date.now()), in units of the model
  sessions,         \* SessionRepository.sessions: id -> lastAccessedAt
  schemas,          \* the session schemas that exist in MySQL
  connections,      \* the pool connections handed out, with their releases
  requests,         \* the HTTP requests being served
  cleanup           \* the running cleanupExpiredSessions pass

requestVars ==
  <<query, tableSize, pc, outcome, executionSteps, parsedQuery, heap, currentRows,
    currentColumns, dataFlow, joinIdx, dbCalls, finalResult>>

splitterVars ==
  <<script, entries, mode, pos, current, inString, stringChar, lines, currentStatement,
    statements, cuts, result>>

callVars ==
  <<createWritten, createQuery, createStatement, evalWritten, evalRow, evalCondition,
    evalResult>>

multiVars == <<multiAt, stmtIdx, submitted, results>>

serverVars == <<now, sessions, schemas, connections, requests, cleanup>>

serviceVars == <<multiVars, serverVars>>

vars == <<requestVars, splitterVars, callVars, serviceVars>>

\* executeMultipleSQL is not running.
MultiIdle ==
  multiAt = "idle" /\ stmtIdx = 1 /\ submitted = << >> /\ results = << >>

\* No cleanup pass has run yet.
NoPass == [at |-> "idle", expiredSessions |-> << >>, connection |-> 0, cleanedCount |-> 0]

\* No session exists, no request is served, no cleanup pass runs.
ServerIdle ==
  /\ now = 0 /\ sessions = << >> /\ schemas = {} /\ connections = << >>
  /\ requests = << >> /\ cleanup = NoPass

ServiceIdle == MultiIdle /\ ServerIdle

\* No call of the parser or of the evaluator is being made.
CallsIdle ==
  /\ createWritten = << >> /\ createQuery = "" /\ createStatement = None
  /\ evalWritten = None /\ evalRow = << >> /\ evalCondition = "" /\ evalResult = None

\* No request is being served.
RequestIdle ==
  /\ query = "" /\ tableSize = 0 /\ pc = "idle" /\ outcome = ""
  /\ executionSteps = << >> /\ parsedQuery = << >> /\ heap = << >>
  /\ currentRows = << >> /\ currentColumns = << >> /\ dataFlow = << >>
  /\ joinIdx = 1 /\ dbCalls = << >> /\ finalResult = << >>

\* A request that has just arrived.
RequestArrives(q, size, at) ==
  /\ query = q /\ tableSize = size /\ pc = at /\ outcome = ""
  /\ executionSteps = << >> /\ parsedQuery = << >> /\ heap = << >>
  /\ currentRows = << >> /\ currentColumns = << >> /\ dataFlow = << >>
  /\ joinIdx = 1 /\ dbCalls = << >> /\ finalResult = << >>

\* The splitter is not running.
SplitterIdle ==
  /\ script = "" /\ entries = << >> /\ mode = "idle" /\ pos = 1 /\ current = ""
  /\ inString = FALSE /\ stringChar = "" /\ lines = << >> /\ currentStatement = ""
  /\ statements = << >> /\ cuts = {} /\ result = None

(***************************************************************************)
(* POST /api/sql/visualize: one action per step of the request             *)
(***************************************************************************)

\* visualizeQuery refusing the empty query only, whatever the statement type.
ValidateOnlyEmpty ==
  /\ pc = "validate"
  /\ IF trim(query) = ""
     THEN pc' = "failed" /\ outcome' = "VALIDATION_ERROR"
     ELSE pc' = "parseOrder" /\ outcome' = outcome
  /\ UNCHANGED <<query, tableSize, executionSteps, parsedQuery, heap, currentRows,
                 currentColumns, dataFlow, joinIdx, dbCalls, finalResult,
                 splitterVars, callVars, serviceVars>>

\* SQLExecutionService.visualizeQuery: the checks before the visualization.
Validate ==
  /\ pc = "validate"
  /\ IF trim(query) = "" \/ detectStatementType(query) # "SELECT"
     THEN pc' = "failed" /\ outcome' = "VALIDATION_ERROR"
     ELSE pc' = "parseOrder" /\ outcome' = outcome
  /\ UNCHANGED <<query, tableSize, executionSteps, parsedQuery, heap, currentRows,
                 currentColumns, dataFlow, joinIdx, dbCalls, finalResult,
                 splitterVars, callVars, serviceVars>>

\* const executionSteps = this.parser.parseExecutionOrder(query)
ParseOrder ==
  /\ pc = "parseOrder"
  /\ LET r == parseExecutionOrder(query)
     IN IF r.ok
        THEN executionSteps' = r.steps /\ pc' = "parseSelect" /\ outcome' = outcome
        ELSE executionSteps' = executionSteps /\ pc' = "failed" /\ outcome' = r.error
  /\ UNCHANGED <<query, tableSize, parsedQuery, heap, currentRows, currentColumns,
                 dataFlow, joinIdx, dbCalls, finalResult, splitterVars, callVars, serviceVars>>

\* const parsedQuery = this.parser.parseSelectQuery(query)
ParseSelect ==
  /\ pc = "parseSelect"
  /\ parsedQuery' = parseSelectQuery(query)
  /\ pc' = "from"
  /\ UNCHANGED <<query, tableSize, outcome, executionSteps, heap, currentRows,
                 currentColumns, dataFlow, joinIdx, dbCalls, finalResult,
                 splitterVars, callVars, serviceVars>>

\* currentRows = r; dataFlow.push(this.createDataFlowStep(step, currentRows, columns)),
\* r being the rows an operation returns and the heap it leaves.
PushDataFlow(r, step, columns) ==
  /\ heap' = r.heap
  /\ currentRows' = r.rows
  /\ dataFlow' = Append(dataFlow, createDataFlowStep(step, r.heap, r.rows, columns))

\* The call repository.getTableData(table), as recorded in dbCalls.
FetchCall(table) == [op |-> "getTableData", arg |-> table, answer |-> None]

\* generateDataFlow: the primary table and the FROM step.
FromStep ==
  /\ pc = "from"
  /\ LET fromStep == FindStep(executionSteps, "FROM")
         after == IF FilterSteps(executionSteps, "JOIN") = << >> THEN "where" ELSE "join"
     IN IF parsedQuery.from = << >>
        THEN /\ pc' = "failed" /\ outcome' = "SQL_EXECUTION_ERROR"
             /\ UNCHANGED <<heap, currentRows, currentColumns, dataFlow, dbCalls>>
        ELSE IF fromStep = None
        THEN /\ pc' = after
             /\ UNCHANGED <<outcome, heap, currentRows, currentColumns, dataFlow, dbCalls>>
        ELSE IF parsedQuery.from[1].table \notin TableNames
        THEN /\ pc' = "failed" /\ outcome' = "MYSQL_ERROR"
             /\ dbCalls' = Append(dbCalls, FetchCall(parsedQuery.from[1].table))
             /\ UNCHANGED <<heap, currentRows, currentColumns, dataFlow>>
        ELSE LET Load(tableData) ==
                   /\ PushDataFlow(LoadRows(heap, tableData.rows), fromStep[1],
                                   tableData.columns)
                   /\ currentColumns' = tableData.columns
             IN /\ Load(TableData(parsedQuery.from[1].table, tableSize))
                /\ dbCalls' = Append(dbCalls, FetchCall(parsedQuery.from[1].table))
                /\ pc' = after /\ outcome' = outcome
  /\ UNCHANGED <<query, tableSize, executionSteps, parsedQuery, joinIdx, finalResult,
                 splitterVars, callVars, serviceVars>>

\* joinTableData.columns.map((c) => `${joinTableName}.${c}`)
NewColumns(joinTableName, columns) ==
  [k \in 1..Len(columns) |-> joinTableName \o "." \o columns[k]]

\* generateDataFlow: one turn of the loop over the JOIN steps.
JoinStep ==
  /\ pc = "join"
  /\ LET Joined(joinStep, table, columns) ==
           /\ currentColumns' = columns
           /\ dataFlow' = Append(dataFlow,
                                 createDataFlowStep(joinStep, heap, currentRows, columns))
           /\ dbCalls' = Append(dbCalls, FetchCall(table))
         Turn(joinStep, joinMatch, after) ==
           IF ~(joinMatch.found /\ joinMatch.g1 # "")
           THEN /\ pc' = after
                /\ UNCHANGED <<outcome, currentColumns, dataFlow, dbCalls>>
           ELSE IF joinMatch.g1 \notin TableNames
           THEN /\ pc' = "failed" /\ outcome' = "MYSQL_ERROR"
                /\ dbCalls' = Append(dbCalls, FetchCall(joinMatch.g1))
                /\ UNCHANGED <<currentColumns, dataFlow>>
           ELSE /\ Joined(joinStep, joinMatch.g1,
                          currentColumns \o NewColumns(joinMatch.g1,
                                                       TableData(joinMatch.g1, tableSize).columns))
                /\ pc' = after /\ outcome' = outcome
         Loop(joinSteps) ==
           Turn(joinSteps[joinIdx], JoinTableRegex(joinSteps[joinIdx].clause),
                IF joinIdx = Len(joinSteps) THEN "where" ELSE "join")
     IN Loop(FilterSteps(executionSteps, "JOIN"))
  /\ joinIdx' = joinIdx + 1
  /\ UNCHANGED <<query, tableSize, executionSteps, parsedQuery, heap, currentRows,
                 finalResult, splitterVars, callVars, serviceVars>>

\* Whether a callback that evaluates the condition on every included row throws.
FilterThrows(condition) ==
  /\ ConditionThrows(condition)
  /\ \E i \in 1..Len(currentRows) : heap[currentRows[i]].included

\* generateDataFlow: the WHERE step.
WhereStep ==
  /\ pc = "where"
  /\ LET whereStep == FindStep(executionSteps, "WHERE")
     IN IF whereStep = None \/ parsedQuery.where = None
        THEN pc' = "groupBy" /\ UNCHANGED <<outcome, heap, currentRows, dataFlow>>
        ELSE IF FilterThrows(parsedQuery.where[1])
        THEN /\ pc' = "failed" /\ outcome' = "INTERNAL_ERROR"
             /\ UNCHANGED <<heap, currentRows, dataFlow>>
        ELSE /\ PushDataFlow(applyWhereFilter(heap, currentRows, parsedQuery.where[1]),
                              whereStep[1], currentColumns)
             /\ pc' = "groupBy" /\ outcome' = outcome
  /\ UNCHANGED <<query, tableSize, executionSteps, parsedQuery, currentColumns, joinIdx,
                 dbCalls, finalResult, splitterVars, callVars, serviceVars>>

\* generateDataFlow: the GROUP BY step, which shows the rows as they are.
GroupByStep ==
  /\ pc = "groupBy"
  /\ LET groupByStep == FindStep(executionSteps, "GROUP BY")
     IN IF groupByStep = None \/ parsedQuery.groupBy = None
        THEN dataFlow' = dataFlow
        ELSE dataFlow' = Append(dataFlow,
                                createDataFlowStep(groupByStep[1], heap, currentRows,
                                                   currentColumns))
  /\ pc' = "having"
  /\ UNCHANGED <<query, tableSize, outcome, executionSteps, parsedQuery, heap, currentRows,
                 currentColumns, joinIdx, dbCalls, finalResult, splitterVars, callVars,
                 serviceVars>>

\* generateDataFlow: the HAVING step.
HavingStep ==
  /\ pc = "having"
  /\ LET havingStep == FindStep(executionSteps, "HAVING")
     IN IF havingStep = None \/ parsedQuery.having = None
        THEN pc' = "select" /\ UNCHANGED <<outcome, heap, currentRows, dataFlow>>
        ELSE IF FilterThrows(parsedQuery.having[1])
        THEN /\ pc' = "failed" /\ outcome' = "INTERNAL_ERROR"
             /\ UNCHANGED <<heap, currentRows, dataFlow>>
        ELSE /\ PushDataFlow(applyHavingFilter(heap, currentRows, parsedQuery.having[1]),
                              havingStep[1], currentColumns)
             /\ pc' = "select" /\ outcome' = outcome
  /\ UNCHANGED <<query, tableSize, executionSteps, parsedQuery, currentColumns, joinIdx,
                 dbCalls, finalResult, splitterVars, callVars, serviceVars>>

\* generateDataFlow: the SELECT step.
SelectStep ==
  /\ pc = "select"
  /\ LET selectStep == FindStep(executionSteps, "SELECT")
     IN IF selectStep = None
        THEN UNCHANGED <<heap, currentRows, currentColumns, dataFlow>>
        ELSE LET Project(selectedColumns) ==
                   /\ PushDataFlow(projectColumns(heap, currentRows, selectedColumns),
                                   selectStep[1], selectedColumns)
                   /\ currentColumns' = selectedColumns
             IN Project(resolveSelectedColumns(parsedQuery.columns, currentColumns))
  /\ pc' = "distinct"
  /\ UNCHANGED <<query, tableSize, outcome, executionSteps, parsedQuery, joinIdx, dbCalls,
                 finalResult, splitterVars, callVars, serviceVars>>

\* generateDataFlow: the DISTINCT step.
DistinctStep ==
  /\ pc = "distinct"
  /\ LET distinctStep == FindStep(executionSteps, "DISTINCT")
     IN IF distinctStep = None \/ ~parsedQuery.isDistinct
        THEN UNCHANGED <<heap, currentRows, dataFlow>>
        ELSE PushDataFlow(applyDistinct(heap, currentRows),
                          distinctStep[1], currentColumns)
  /\ pc' = "orderBy"
  /\ UNCHANGED <<query, tableSize, outcome, executionSteps, parsedQuery, currentColumns,
                 joinIdx, dbCalls, finalResult, splitterVars, callVars, serviceVars>>

\* generateDataFlow: the ORDER BY step.
OrderByStep ==
  /\ pc = "orderBy"
  /\ LET orderByStep == FindStep(executionSteps, "ORDER BY")
     IN IF orderByStep = None \/ parsedQuery.orderBy = None
        THEN UNCHANGED <<heap, currentRows, dataFlow>>
        ELSE PushDataFlow(applyOrderBy(heap, currentRows, parsedQuery.orderBy[1]),
                          orderByStep[1], currentColumns)
  /\ pc' = "limit"
  /\ UNCHANGED <<query, tableSize, outcome, executionSteps, parsedQuery, currentColumns,
                 joinIdx, dbCalls, finalResult, splitterVars, callVars, serviceVars>>

\* generateDataFlow: the LIMIT step.
LimitStep ==
  /\ pc = "limit"
  /\ LET limitStep == FindStep(executionSteps, "LIMIT")
     IN IF limitStep = None \/ parsedQuery.limit = None
        THEN UNCHANGED <<heap, currentRows, dataFlow>>
        ELSE PushDataFlow(applyLimit(heap, currentRows, parsedQuery.limit[1]),
                          limitStep[1], currentColumns)
  /\ pc' = "offset"
  /\ UNCHANGED <<query, tableSize, outcome, executionSteps, parsedQuery, currentColumns,
                 joinIdx, dbCalls, finalResult, splitterVars, callVars, serviceVars>>

\* generateDataFlow: the OFFSET step.
OffsetStep ==
  /\ pc = "offset"
  /\ LET offsetStep == FindStep(executionSteps, "OFFSET")
     IN IF offsetStep = None \/ parsedQuery.offset = None
        THEN UNCHANGED <<heap, currentRows, dataFlow>>
        ELSE PushDataFlow(applyOffset(heap, currentRows, parsedQuery.offset[1]),
                          offsetStep[1], currentColumns)
  /\ pc' = "final"
  /\ UNCHANGED <<query, tableSize, outcome, executionSteps, parsedQuery, currentColumns,
                 joinIdx, dbCalls, finalResult, splitterVars, callVars, serviceVars>>

\* What repository.executeQuery(query) may answer: the rows the engine returns.
EngineAnswers == {<< >>, <<CatalogueRow(1)>>, <<CatalogueRow(1), CatalogueRow(2)>>}

\* Object.keys(row)
ObjectKeys(row) == [k \in 1..Len(row) |-> row[k].k]

\* parsedQuery.columns.filter((c) => c !== '*')
RECURSIVE FilterNotStar(_)
FilterNotStar(columns) ==
  IF columns = << >> THEN << >>
  ELSE IF Head(columns) = "*" THEN FilterNotStar(Tail(columns))
  ELSE <<Head(columns)>> \o FilterNotStar(Tail(columns))

\* The call repository.executeQuery(query), as recorded in dbCalls with the rows
\* the engine answered (None when the call failed).
ExecuteCall(q, answer) == [op |-> "executeQuery", arg |-> q, answer |-> answer]

\* executeFinalQuery taking its rows from the simulated data flow (the included
\* rows) instead of the rows the engine answered.
FinalQueryFromDataFlow ==
  /\ pc = "final"
  /\ \/ /\ pc' = "failed" /\ outcome' = "MYSQL_ERROR"
        /\ dbCalls' = Append(dbCalls, ExecuteCall(query, None))
        /\ finalResult' = finalResult
     \/ \E rows \in EngineAnswers :
          /\ dbCalls' = Append(dbCalls, ExecuteCall(query, Some(rows)))
          /\ finalResult' =
               [tableName |-> "Query Result",
                columns |-> IF Len(rows) > 0 THEN ObjectKeys(rows[1])
                            ELSE FilterNotStar(parsedQuery.columns),
                rows |-> [n \in 1..Cardinality({i \in 1..Len(currentRows) :
                                                  heap[currentRows[i]].included}) |->
                            heap[currentRows[Nth({i \in 1..Len(currentRows) :
                                                    heap[currentRows[i]].included}, n)]].data]]
          /\ pc' = "done" /\ outcome' = "ok"
  /\ UNCHANGED <<query, tableSize, executionSteps, parsedQuery, heap, currentRows,
                 currentColumns, dataFlow, joinIdx, splitterVars, callVars, serviceVars>>

\* executeFinalQuery: the engine runs the query and answers, or the call fails.
FinalQuery ==
  /\ pc = "final"
  /\ \/ /\ pc' = "failed" /\ outcome' = "MYSQL_ERROR"
        /\ dbCalls' = Append(dbCalls, ExecuteCall(query, None))
        /\ finalResult' = finalResult
     \/ \E rows \in EngineAnswers :
          /\ dbCalls' = Append(dbCalls, ExecuteCall(query, Some(rows)))
          /\ finalResult' = [tableName |-> "Query Result",
                             columns |-> IF Len(rows) > 0 THEN ObjectKeys(rows[1])
                                         ELSE FilterNotStar(parsedQuery.columns),
                             rows |-> rows]
          /\ pc' = "done" /\ outcome' = "ok"
  /\ UNCHANGED <<query, tableSize, executionSteps, parsedQuery, heap, currentRows,
                 currentColumns, dataFlow, joinIdx, splitterVars, callVars, serviceVars>>

(***************************************************************************)
(* SQLExecutionService.splitStatements: one action per step of the loops   *)
(***************************************************************************)

\* A script has been handed to splitStatements.
ScriptArrives(sql, written) ==
  /\ script = sql /\ entries = written /\ mode = "start" /\ pos = 1 /\ current = ""
  /\ inString = FALSE /\ stringChar = "" /\ lines = << >> /\ currentStatement = ""
  /\ statements = << >> /\ cuts = {} /\ result = None

\* splitStatements: the choice between splitBySemicolon and splitByNewline, and
\* const lines = sql.split(/\r?\n/) of the latter.
SplitStatements ==
  /\ mode = "start"
  /\ IF hasSemicolons(script)
     THEN mode' = "semicolon" /\ lines' = lines
     ELSE mode' = "newline" /\ lines' = SplitLines(script)
  /\ UNCHANGED <<serviceVars, callVars, requestVars,
                 script, entries, pos, current, inString, stringChar,
                 currentStatement, statements, cuts, result>>

\* splitBySemicolon: one turn of the loop over the characters, on the character
\* char that follows prevChar.
SemicolonTurn(char, prevChar) ==
  /\ inString' = NextInString(char, prevChar, inString, stringChar)
  /\ stringChar' = NextStringChar(char, prevChar, inString, stringChar)
  /\ IF IsSplitPoint(char, inString')
     THEN /\ statements' = Append(statements, trim(current))
          /\ current' = ""
          /\ cuts' = cuts \cup {pos}
     ELSE /\ current' = current \o char
          /\ UNCHANGED <<statements, cuts>>

SemicolonStep ==
  /\ mode = "semicolon"
  /\ pos <= Len(script)
  /\ SemicolonTurn(Ch(script, pos), Ch(script, pos - 1))
  /\ pos' = pos + 1
  /\ UNCHANGED <<serviceVars, callVars, requestVars,
                 script, entries, mode, lines, currentStatement, result>>

\* splitBySemicolon after the loop: the remaining statement and the filter.
SemicolonReturn ==
  /\ mode = "semicolon"
  /\ pos > Len(script)
  /\ statements' = IF trim(current) # "" THEN Append(statements, trim(current))
                   ELSE statements
  /\ result' = Some(FilterNonEmpty(statements'))
  /\ mode' = "done"
  /\ UNCHANGED <<serviceVars, callVars, requestVars,
                 script, entries, pos, current, inString, stringChar, lines,
                 currentStatement, cuts>>

\* splitByNewline: one turn of the loop over the lines, on the line trimmedLine.
NewlineTurn(trimmedLine) ==
  IF trimmedLine = ""
  THEN UNCHANGED <<currentStatement, statements>>
  ELSE IF StartsStatement(trimmedLine)
  THEN /\ statements' = IF trim(currentStatement) # ""
                        THEN Append(statements, trim(currentStatement))
                        ELSE statements
       /\ currentStatement' = trimmedLine
  ELSE /\ currentStatement' = currentStatement \o " " \o trimmedLine
       /\ statements' = statements

NewlineStep ==
  /\ mode = "newline"
  /\ pos <= Len(lines)
  /\ NewlineTurn(trim(lines[pos]))
  /\ pos' = pos + 1
  /\ UNCHANGED <<serviceVars, callVars, requestVars,
                 script, entries, mode, current, inString, stringChar, lines,
                 cuts, result>>

\* splitByNewline after the loop: the last statement and the filter.
NewlineReturn ==
  /\ mode = "newline"
  /\ pos > Len(lines)
  /\ statements' = IF trim(currentStatement) # ""
                   THEN Append(statements, trim(currentStatement))
                   ELSE statements
  /\ result' = Some(FilterNonEmpty(statements'))
  /\ mode' = "done"
  /\ UNCHANGED <<serviceVars, callVars, requestVars,
                 script, entries, pos, current, inString, stringChar, lines,
                 currentStatement, cuts>>

(***************************************************************************)
(* A call of SQLParserService.parseCreateTable                             *)
(***************************************************************************)

CreateArrives(written, q) ==
  /\ createWritten = written /\ createQuery = q /\ createStatement = None
  /\ evalWritten = None /\ evalRow = << >> /\ evalCondition = "" /\ evalResult = None

ParseCreateTable ==
  /\ createQuery # "" /\ createStatement = None
  /\ createStatement' = Some(parseCreateTable(createQuery))
  /\ UNCHANGED <<createWritten, createQuery, evalWritten, evalRow, evalCondition,
                 evalResult, requestVars, splitterVars, serviceVars>>

(***************************************************************************)
(* A call of SQLVisualizationService.evaluateSimpleCondition: it returns a *)
(* boolean (value) or throws the SyntaxError of new RegExp (threw).        *)
(***************************************************************************)

EvalArrives(written, data, condition) ==
  /\ evalWritten = Some(written) /\ evalRow = data /\ evalCondition = condition
  /\ evalResult = None
  /\ createWritten = << >> /\ createQuery = "" /\ createStatement = None

Evaluate ==
  /\ evalWritten # None /\ evalResult = None
  /\ evalResult' =
       Some(IF ConditionThrows(evalCondition) THEN [threw |-> TRUE, value |-> FALSE]
            ELSE [threw |-> FALSE,
                  value |-> evaluateSimpleCondition(evalRow, evalCondition)])
  /\ UNCHANGED <<createWritten, createQuery, createStatement, evalWritten, evalRow,
                 evalCondition, requestVars, splitterVars, serviceVars>>

(***************************************************************************)
(* The requests of the model                                               *)
(***************************************************************************)

\* SELECT queries on the table `books`, written clause by clause.
SelectQueries ==
  {"SELECT " \o distinct \o columns \o " FROM books" \o where \o group \o order \o limit :
     distinct \in {"", "DISTINCT "},
     columns \in {"*", "name", "name AS n"},
     where \in {"", " WHERE id > 1"},
     group \in {"", " GROUP BY id HAVING id < 3"},
     order \in {"", " ORDER BY name DESC"},
     limit \in {"", " LIMIT 1", " LIMIT 2 OFFSET 1"}}

\* Queries on other tables and with joins, and requests that are rejected or stop
\* on the way.
OtherQueries ==
  {"", "  ", "INSERT INTO books VALUES (1)", "SELECT 1", "select id from bs",
   "SELECT * FROM users", "SELECT name FROM users WHERE id > 1 ORDER BY name LIMIT 1",
   "SELECT * FROM cs", "SELECT DISTINCT id FROM books b WHERE name = 'amy' LIMIT 1",
   "SELECT * FROM books JOIN cs ON cs.id = books.id WHERE id > 1 LIMIT 2",
   "SELECT * FROM books WHERE name LIKE '(a'",
   "SELECT * FROM books LEFT JOIN cs ON 1 = 1 JOIN zz ON 1 = 1",
   "SELECT * FROM cs JOIN books ON 1 = 1 INNER JOIN cs ON 1 = 1 LIMIT 0;",
   "SELECT * FROM books WHERE active GROUP BY id HAVING flag LIMIT 1",
   "SELECT name FROM books WHERE id IS NULL", "SELECT * FROM books WHERE id IN (1, 2)",
   "SELECT DISTINCT * FROM ks", "SELECT DISTINCT id FROM ks WHERE id < 2",
   "SELECT * FROM fs LIMIT 2", "SELECT * FROM fs WHERE id > 1 ORDER BY id DESC LIMIT 2",
   "SELECT * FROM fs LIMIT 7", "SELECT 1 LIMIT 1", "DROP TABLE books",
   "UPDATE books SET id = 1 WHERE id IN (SELECT id FROM cs)", " delete from books",
   "WITH b AS (SELECT * FROM books) SELECT * FROM b", "(SELECT * FROM books)",
   "SELECT * FROM books WHERE id > 1 ORDER BY name, id DESC",
   "SELECT id FROM fs WHERE id < 4 ORDER BY id desc LIMIT 2 OFFSET 1",
   "SELECT * FROM fs LIMIT 1 OFFSET 3", "SELECT * FROM fs LIMIT 4 OFFSET 0"}

VisualizeQueries == SelectQueries \cup OtherQueries

Init ==
  /\ ServiceIdle
  /\ \E q \in VisualizeQueries, size \in 0..MaxRows : RequestArrives(q, size, "validate")
  /\ SplitterIdle
  /\ CallsIdle

Next ==
  \/ Validate
  \/ ParseOrder
  \/ ParseSelect
  \/ FromStep
  \/ JoinStep
  \/ WhereStep
  \/ GroupByStep
  \/ HavingStep
  \/ SelectStep
  \/ DistinctStep
  \/ OrderByStep
  \/ LimitStep
  \/ OffsetStep
  \/ FinalQuery

Spec == Init /\ [][Next]_vars

(***************************************************************************)
(* The scripts of the model                                                *)
(***************************************************************************)

MaxScriptLen == 4

MaxLines == 3

\* The characters the short scripts are made of.
ScriptChars == {"a", ";", "'", "\"", "\\", " ", "\n"}

\* Every script of at most MaxScriptLen of these characters.
ShortScripts ==
  UNION {{Join(f, 1, n) : f \in [1..n -> ScriptChars]} : n \in 0..MaxScriptLen}

\* The lines scripts are written with, each with the role its author gave it: the
\* first line of a statement, a continuation line, or a blank line.
ScriptLines ==
  {[text |-> "select *", role |-> "first"], [text |-> "  UPDATE t", role |-> "first"],
   [text |-> "SELECT ';'", role |-> "first"],
   [text |-> "FROM t ", role |-> "cont"], [text |-> "SET x = 1", role |-> "cont"],
   [text |-> "  ", role |-> "blank"]}

LineFeeds == {"\n", "\r\n"}

\* The script whose lines are those of written, each but the last followed by feed.
WrittenScript(written, feed) ==
  Join([k \in 1..Len(written) |->
          written[k].text \o (IF k < Len(written) THEN feed ELSE "")], 1, Len(written))

WrittenEntries == UNION {[1..n -> ScriptLines] : n \in 1..MaxLines}

\* Scripts given in full.
GivenScripts ==
  {"INSERT INTO t VALUES ('a;b');", "SELECT 1; SELECT \"x;\\\";y\" ;\n",
   "INSERT INTO t VALUES ('a');\nSELECT 'b' ;  "}

InitSplit ==
  /\ ServiceIdle
  /\ RequestIdle
  /\ CallsIdle
  /\ \/ \E sql \in ShortScripts \cup GivenScripts : ScriptArrives(sql, << >>)
     \/ \E written \in WrittenEntries, feed \in LineFeeds :
          ScriptArrives(WrittenScript(written, feed), written)

NextSplit ==
  \/ SplitStatements
  \/ SemicolonStep
  \/ SemicolonReturn
  \/ NewlineStep
  \/ NewlineReturn

SpecSplit == InitSplit /\ [][NextSplit]_vars

(***************************************************************************)
(* The CREATE TABLE statements given to the parser: a head, then a list of *)
(* column definitions between parentheses, separated by commas.            *)
(***************************************************************************)

MaxDefinitions == 2

ColumnTexts ==
  { "id INT PRIMARY KEY AUTO_INCREMENT", "name VARCHAR(255) NOT NULL", "dept_id INT",
    "FOREIGN KEY (dept_id) REFERENCES depts(id)", "unique_id INT",
    "checksum TEXT DEFAULT 'x'", "price DECIMAL(10,2) UNIQUE",
    "boss INT REFERENCES emps(id)", "references_id INT", "primary key (id)" }

RECURSIVE DefinitionLists(_)
DefinitionLists(n) ==
  IF n = 0 THEN {<< >>}
  ELSE {<<d>> \o l : d \in ColumnTexts, l \in DefinitionLists(n - 1)}

GivenDefinitions ==
  { <<"id INT PRIMARY KEY AUTO_INCREMENT", "name VARCHAR(255) NOT NULL", "dept_id INT",
      "FOREIGN KEY (dept_id) REFERENCES depts(id)">>,
    <<"id INT", "CHECK (id > 0)", "Unique (id)", "CONSTRAINT fk FOREIGN KEY (id)">>,
    <<"id INT", "note", "size  INT default 1", " ">>,
    << >> }

WrittenDefinitions ==
  UNION {DefinitionLists(n) : n \in 1..MaxDefinitions} \cup GivenDefinitions

CreateHeads == {"CREATE TABLE employees ", "create table  if not exists t"}

CreateText(head, written) ==
  head \o "(" \o Join([k \in 1..Len(written) |->
                         IF k = 1 THEN written[k] ELSE ", " \o written[k]],
                      1, Len(written)) \o ")"

InitCreate ==
  /\ ServiceIdle
  /\ RequestIdle
  /\ SplitterIdle
  /\ \/ \E head \in CreateHeads, written \in WrittenDefinitions :
          CreateArrives(written, CreateText(head, written))
     \/ \E q \in {"CREATE TABLE (id INT)", "CREATE TABLE t id INT"} :
          CreateArrives(<< >>, q)

NextCreate == ParseCreateTable

SpecCreate == InitCreate /\ [][NextCreate]_vars

(***************************************************************************)
(* The rows and the conditions given to the evaluator: one comparison, or  *)
(* comparisons joined by AND or by OR, or a text that holds no comparison. *)
(***************************************************************************)

MaxParts == 2

EvalRows ==
  { <<[k |-> "age", v |-> NumV("20")], [k |-> "name", v |-> StrV("Jon")]>>,
    <<[k |-> "age", v |-> NumV("15")], [k |-> "name", v |-> StrV("jan")]>>,
    <<[k |-> "age", v |-> NumV("18")], [k |-> "name", v |-> StrV("J.n")]>> }

ComparisonOperators == {">=", "<=", "!=", "<>", "=", ">", "<", "LIKE"}

Comparisons ==
  [column : {"age", "name"}, op : ComparisonOperators,
   value : {"18", "20", "'Jon'", "'J%'", "'j_n'", "'J.n'", "'(a'"}]

JoinedComparisons ==
  { [column |-> "age", op |-> ">", value |-> "16"],
    [column |-> "age", op |-> "<", value |-> "20"],
    [column |-> "name", op |-> "=", value |-> "'Jon'"] }

RECURSIVE ComparisonLists(_)
ComparisonLists(n) ==
  IF n = 0 THEN {<< >>}
  ELSE {<<c>> \o l : c \in JoinedComparisons, l \in ComparisonLists(n - 1)}

ComparisonText(c) == c.column \o " " \o c.op \o " " \o c.value

ConditionText(parts, joiner) ==
  Join([k \in 1..Len(parts) |->
          IF k = 1 THEN ComparisonText(parts[k])
          ELSE " " \o joiner \o " " \o ComparisonText(parts[k])],
       1, Len(parts))

OtherConditions ==
  {"", "active", "age IS NULL", "age IN (18, 20)", "NOT active", "age >", "> 18",
   "active AND name", "active or name", "age BETWEEN 1 AND 2"}

InitEval ==
  /\ ServiceIdle
  /\ RequestIdle
  /\ SplitterIdle
  /\ \E data \in EvalRows :
       \/ \E c \in Comparisons :
            EvalArrives([parts |-> <<c>>, joiner |-> ""], data, ComparisonText(c))
       \/ \E n \in 2..MaxParts, joiner \in {"AND", "OR"} :
            \E parts \in ComparisonLists(n) :
              EvalArrives([parts |-> parts, joiner |-> joiner], data,
                          ConditionText(parts, joiner))
       \/ \E condition \in OtherConditions :
            EvalArrives([parts |-> << >>, joiner |-> ""], data, condition)

NextEval == Evaluate

SpecEval == InitEval /\ [][NextEval]_vars

(***************************************************************************)
(* The queries given to the parser                                         *)
(***************************************************************************)

\* What follows the table in the text of a query: the clauses in the order of the
\* language, in other orders, with joins, with and without the final semicolon.
QueryTails ==
  {"", ";", " WHERE a = 1", " b JOIN cs ON cs.id = b.id LEFT JOIN q AS z ON 1 = 1 WHERE z < 2",
   " LIMIT 1 ORDER BY a WHERE b = 2", " OFFSET 2 LIMIT 3 HAVING c > 1 GROUP BY c",
   " WHERE a LIKE 'x%' ORDER BY a DESC, b LIMIT 4 OFFSET 1;",
   " GROUP BY a HAVING a > 1 ORDER BY a", " CROSS JOIN kfc LIMIT 10"}

ParseQueries ==
  {head \o " FROM " \o table \o tail :
     head \in {"SELECT *", "select distinct a, b", "SELECT  DISTINCT x AS y"},
     table \in {"users", "books", "cs", "t1"},
     tail \in QueryTails}
  \cup {"SELECT 1", "SELECT 1 LIMIT 1", "SELECT a ORDER BY b LIMIT 2", "",
        "INSERT INTO cs VALUES (1)", "SELECT a LIMIT 2 ORDER BY b FROM cs",
        "  select\n  a\nfrom\tkfc\nwhere a = 1 ;", "SELECT * FROM (SELECT 1) s",
        "WITH x AS (SELECT 1) SELECT * FROM x", "SELECT a FROM cs WHERE b = 1 WHERE c = 2"}

InitParse ==
  /\ ServiceIdle
  /\ \E q \in ParseQueries : RequestArrives(q, 0, "parseOrder")
  /\ SplitterIdle
  /\ CallsIdle

NextParse ==
  \/ ParseOrder
  \/ ParseSelect

SpecParse == InitParse /\ [][NextParse]_vars

\* The types of the steps, in the logical order of execution.
LogicalOrder ==
  <<"FROM", "JOIN", "WHERE", "GROUP BY", "HAVING", "SELECT", "DISTINCT", "ORDER BY",
    "LIMIT", "OFFSET">>

LogicalRank(type) == CHOOSE r \in 1..Len(LogicalOrder) : LogicalOrder[r] = type

\* The positions of the steps of a type in the list parseExecutionOrder returned.
StepsOfType(type) == {k \in 1..Len(executionSteps) : executionSteps[k].type = type}

\* C4: the steps parseExecutionOrder returns carry the orders 1..N in list position;
\* a FROM step has order 1, and the order of the LIMIT step is greater than that of
\* the ORDER BY step.
C4_OrdersAreContiguous ==
  /\ \A k \in 1..Len(executionSteps) : executionSteps[k].order = k
  /\ \A k \in StepsOfType("FROM") : executionSteps[k].order = 1
  /\ \A k \in StepsOfType("ORDER BY") : \A m \in StepsOfType("LIMIT") :
       executionSteps[m].order > executionSteps[k].order

\* A query has been accepted with at least six steps, FROM, ORDER BY and LIMIT
\* among them.
C4_Witness ==
  /\ Len(executionSteps) >= 6
  /\ StepsOfType("FROM") # {}
  /\ StepsOfType("ORDER BY") # {}
  /\ StepsOfType("LIMIT") # {}

\* C5: the types of the steps appear in the logical order FROM, JOIN, WHERE,
\* GROUP BY, HAVING, SELECT, DISTINCT, ORDER BY, LIMIT, OFFSET whatever the order of
\* the clauses in the text; only JOIN appears more than once, and DISTINCT only
\* right after SELECT.
C5_TypesInLogicalOrder ==
  /\ \A k \in 1..Len(executionSteps) : \E r \in 1..Len(LogicalOrder) :
       LogicalOrder[r] = executionSteps[k].type
  /\ \A k \in 1..(Len(executionSteps) - 1) :
       \/ LogicalRank(executionSteps[k].type) < LogicalRank(executionSteps[k + 1].type)
       \/ executionSteps[k].type = "JOIN" /\ executionSteps[k + 1].type = "JOIN"
  /\ \A k \in StepsOfType("DISTINCT") : k > 1 /\ executionSteps[k - 1].type = "SELECT"

\* The text of the query has LIMIT before WHERE, and the steps returned hold two
\* JOIN steps or a DISTINCT step.
C5_Witness ==
  /\ \/ Cardinality(StepsOfType("JOIN")) >= 2
     \/ /\ StepsOfType("DISTINCT") # {}
        /\ \E i, j \in 1..Len(query) :
             i < j /\ KwAt(query, i, "LIMIT") /\ KwAt(query, j, "WHERE")
  /\ StepsOfType("SELECT") # {}

\* The keywords that end the FROM clause.
ClauseKeywords == {"JOIN", "WHERE", "GROUP", "ORDER", "HAVING", "LIMIT"}

\* Where a table is named in the normalized text s: the positions of the first
\* character of an identifier that follows the word FROM.
TablesNamed(s, U) ==
  {c \in 6..Len(s) :
     /\ KwAt(U, c - 5, "FROM") /\ WordBoundary(s, c - 5)
     /\ Ch(s, c - 1) = " " /\ IsWordCh(Ch(s, c))}

\* The end (exclusive) of the FROM clause that names its table at c: the next
\* clause keyword, a semicolon, or the end of the text.
FromClauseEnd(s, U, c) ==
  CHOOSE e \in c..(Len(s) + 1) :
    LET Ends(j) == \/ j = Len(s) + 1
                   \/ Ch(s, j) = ";"
                   \/ \E kw \in ClauseKeywords :
                        KwAt(U, j, kw) /\ WordBoundary(s, j) /\ WordBoundary(s, j + Len(kw))
    IN Ends(e) /\ \A j \in c..(e - 1) : ~Ends(j)

\* The clause of the FROM step as the text of the query gives it.
FromClauseOf(s, U) ==
  "FROM " \o trim(Sub(s, Min(TablesNamed(s, U)), FromClauseEnd(s, U, Min(TablesNamed(s, U))) - 1))

FromStepAsWritten(s, U) ==
  /\ Cardinality(StepsOfType("FROM")) = 1
  /\ \A k \in StepsOfType("FROM") : executionSteps[k].clause = FromClauseOf(s, U)

\* C6: for a SELECT statement that names a table after FROM, parseExecutionOrder
\* emits exactly one FROM step, whose clause is FROM followed by the text from the
\* table name up to the next clause keyword, a semicolon or the end.
C6_FromStepHoldsTheFromClause ==
  (pc \notin {"idle", "validate", "parseOrder"} /\ detectStatementType(query) = "SELECT") =>
    \A n \in Normalized(query) :
      TablesNamed(n[1], n[2]) # {} => FromStepAsWritten(n[1], n[2])

(***************************************************************************)
(* The data flow of a visualization                                        *)
(***************************************************************************)

\* The RowStates of data-flow step k, read through the references it holds.
StepRows(k) == [i \in 1..Len(dataFlow[k].rows) |-> heap[dataFlow[k].rows[i]]]

\* What step k shows: its rows (data, included, excludedReason) and its columns.
Snapshot(k) ==
  [rows |-> [i \in 1..Len(dataFlow[k].rows) |->
               [data |-> StepRows(k)[i].data, included |-> StepRows(k)[i].included,
                excludedReason |-> StepRows(k)[i].excludedReason]],
   columns |-> dataFlow[k].columns]

Snapshots == [k \in 1..Len(dataFlow) |-> Snapshot(k)]

\* The number of rows the primary table of the parsed query holds.
PrimaryRows == Len(TableData(parsedQuery.from[1].table, tableSize).rows)

HasPrimaryTable ==
  /\ parsedQuery # << >>
  /\ parsedQuery.from # << >>
  /\ parsedQuery.from[1].table \in TableNames

\* C1: for a SELECT query whose primary table holds R rows, every data-flow step
\* has exactly R RowStates, its statistics say totalRows = R and includedRows +
\* excludedRows = totalRows, and the first step is the FROM step with all R rows
\* included.
C1_EveryStepHasAllRows ==
  (HasPrimaryTable /\ dataFlow # << >>) =>
    /\ \A k \in 1..Len(dataFlow) :
         /\ Len(dataFlow[k].rows) = PrimaryRows
         /\ dataFlow[k].stats.totalRows = PrimaryRows
         /\ dataFlow[k].stats.includedRows + dataFlow[k].stats.excludedRows
              = dataFlow[k].stats.totalRows
    /\ dataFlow[1].stepType = "FROM"
    /\ dataFlow[1].stats.includedRows = PrimaryRows

\* The row of step m that is row i of step k (the same row of the table).
SameRow(k, i, m) == {j \in 1..Len(dataFlow[m].rows) : StepRows(m)[j].rid = StepRows(k)[i].rid}

\* C2: exclusion is permanent: a row that is excluded at a step is, in every later
\* step, still there (wherever ORDER BY moved it), still excluded and with the
\* same reason, and includedRows never increases from one step to the next.
C2_ExclusionIsPermanent ==
  \A k \in 1..Len(dataFlow) : \A m \in (k + 1)..Len(dataFlow) :
    /\ \A i \in 1..Len(dataFlow[k].rows) :
         ~StepRows(k)[i].included =>
           /\ SameRow(k, i, m) # {}
           /\ \A j \in SameRow(k, i, m) :
                /\ ~StepRows(m)[j].included
                /\ StepRows(m)[j].excludedReason = StepRows(k)[i].excludedReason
    /\ dataFlow[m].stats.includedRows <= dataFlow[k].stats.includedRows

\* A row excluded at some step has been moved by ORDER BY and has passed LIMIT and
\* OFFSET, which excluded a row that was included at that step.
C2_Witness ==
  /\ dataFlow # << >>
  /\ dataFlow[Len(dataFlow)].stepType = "OFFSET"
  /\ \E k \in 1..(Len(dataFlow) - 1) : \E i, j \in 1..Len(dataFlow[k].rows) :
       /\ ~StepRows(k)[i].included
       /\ i \notin SameRow(k, i, Len(dataFlow))
       /\ StepRows(k)[j].included
       /\ \E n \in SameRow(k, j, Len(dataFlow)) : ~StepRows(Len(dataFlow))[n].included

\* C3: the snapshot recorded for a step is not changed by any later step: every
\* step of the request leaves the snapshots already recorded as they were.
C3_SnapshotsAreImmutable ==
  [][/\ Len(dataFlow') >= Len(dataFlow)
     /\ SubSeq(Snapshots', 1, Len(dataFlow)) = Snapshots]_vars

\* Steps have been recorded and the last one excludes a row the first one shows
\* included, in another position.
C3_Witness ==
  /\ Len(dataFlow) >= 5
  /\ \E i \in 1..Len(dataFlow[1].rows) :
       /\ StepRows(1)[i].included
       /\ \E j \in SameRow(1, i, Len(dataFlow)) :
            j # i /\ ~StepRows(Len(dataFlow))[j].included

(***************************************************************************)
(* The statements of a script                                              *)
(***************************************************************************)

\* The first position at or after i of a quote of one of the kinds that no
\* backslash precedes, Len(s) + 1 if there is none.
NextQuote(s, i, kinds) ==
  CHOOSE j \in i..(Len(s) + 1) :
    LET Quote(k) == k = Len(s) + 1 \/ (Ch(s, k) \in kinds /\ Ch(s, k - 1) # "\\")
    IN Quote(j) /\ \A k \in i..(j - 1) : ~Quote(k)

\* The string literals of s from position i on, each as <<opening quote, closing
\* quote>>; an unterminated literal closes at Len(s) + 1.
RECURSIVE Literals(_, _)
Literals(s, i) ==
  IF NextQuote(s, i, {"'", "\""}) > Len(s) THEN {}
  ELSE LET Lit(open) ==
             LET Rest(close) ==
                   {<<open, close>>}
                     \cup (IF close > Len(s) THEN {} ELSE Literals(s, close + 1))
             IN Rest(NextQuote(s, open + 1, {Ch(s, open)}))
       IN Lit(NextQuote(s, i, {"'", "\""}))

InsideLiteral(s, i) == \E l \in Literals(s, 1) : l[1] < i /\ i < l[2]

\* Every string literal of s is closed.
Balanced(s) == \A l \in Literals(s, 1) : l[2] <= Len(s)

Semicolons(s) == {i \in 1..Len(s) : Ch(s, i) = ";"}

\* The text between the semicolon at i and the one before it (or the start).
FragmentBefore(s, i) ==
  Sub(s, Max({0} \cup {j \in Semicolons(s) : j < i}) + 1, i - 1)

IsBlank(s) == \A k \in 1..Len(s) : IsSpaceCh(Ch(s, k))

\* A script whose semicolons all lie outside string literals, with only whitespace
\* after the last one.
SemicolonTerminated(s) ==
  /\ Semicolons(s) # {}
  /\ \A i \in Semicolons(s) : ~InsideLiteral(s, i)
  /\ IsBlank(Sub(s, Max(Semicolons(s)) + 1, Len(s)))

\* C7 as stated: for a script with N semicolons, all outside string literals, and
\* only whitespace after the last one, the splitter returns exactly N statements.
C7_OneStatementPerSemicolon ==
  (result # None /\ SemicolonTerminated(script)) =>
    Len(result[1]) = Cardinality(Semicolons(script))

\* C7, amended: ... and some character other than whitespace before each
\* semicolon (after the semicolon before it), the splitter returns exactly N
\* statements.
C7_OneStatementPerNonEmptyFragment ==
  (/\ result # None
   /\ SemicolonTerminated(script)
   /\ \A i \in Semicolons(script) : ~IsBlank(FragmentBefore(script, i))) =>
    Len(result[1]) = Cardinality(Semicolons(script))

\* A script of two statements or more, with string literals, has been split.
C7_Witness ==
  /\ result # None
  /\ SemicolonTerminated(script)
  /\ \A i \in Semicolons(script) : ~IsBlank(FragmentBefore(script, i))
  /\ Cardinality(Semicolons(script)) >= 2
  /\ Literals(script, 1) # {}
  /\ Len(result[1]) >= 2

\* The splitter never splits at a semicolon inside a string literal, and the
\* script of the example yields its one statement.
SplitsOutsideLiterals ==
  /\ \A i \in cuts : ~InsideLiteral(script, i)
  /\ (result # None /\ script = "INSERT INTO t VALUES ('a;b');") =>
       result[1] = <<"INSERT INTO t VALUES ('a;b')">>

\* C8 as stated: in semicolon mode the splitter never splits at a semicolon inside
\* a quoted string literal (a quote after a backslash neither opens nor closes
\* one), every returned statement has balanced string literals, and
\* INSERT INTO t VALUES ('a;b'); yields exactly one statement containing 'a;b'.
C8_QuotedSemicolonsStay ==
  /\ SplitsOutsideLiterals
  /\ (result # None /\ hasSemicolons(script)) =>
       \A k \in 1..Len(result[1]) : Balanced(result[1][k])

\* C8, amended: ... every statement returned for a script whose string literals
\* are all closed has balanced string literals ...
C8_QuotedSemicolonsStayWhenClosed ==
  /\ SplitsOutsideLiterals
  /\ (result # None /\ hasSemicolons(script) /\ Balanced(script)) =>
       \A k \in 1..Len(result[1]) : Balanced(result[1][k])

\* A script has been split at a semicolon and holds a closed literal with a
\* semicolon and a quote after a backslash inside.
C8_Witness ==
  /\ result # None
  /\ Balanced(script)
  /\ cuts # {}
  /\ \E i \in Semicolons(script) : InsideLiteral(script, i)
  /\ \E i \in 2..Len(script) :
       Ch(script, i) = "\"" /\ Ch(script, i - 1) = "\\" /\ InsideLiteral(script, i)
  /\ Len(result[1]) = 2

\* The entries of a script with the role given, in order.
RECURSIVE EntriesOfRole(_, _)
EntriesOfRole(written, role) ==
  IF written = << >> THEN << >>
  ELSE (IF Head(written).role = role THEN <<Head(written)>> ELSE << >>)
         \o EntriesOfRole(Tail(written), role)

\* C9: the splitter splits on semicolons if and only if the script holds a
\* semicolon outside string literals; a script whose only semicolons are inside
\* quoted strings is split on line boundaries, a new statement starting at each
\* line that begins with a statement keyword.
C9_SemicolonModeIffUnquotedSemicolon ==
  /\ mode \in {"semicolon", "newline"} =>
       ((mode = "semicolon") <=> (\E i \in Semicolons(script) : ~InsideLiteral(script, i)))
  /\ (/\ result # None
      /\ entries # << >>
      /\ \A i \in Semicolons(script) : InsideLiteral(script, i)) =>
       Len(result[1]) >= Len(EntriesOfRole(entries, "first"))

\* The line begins with a statement keyword: its first word, in upper case, is one.
BeginsWithKeyword(line) ==
  toUpperCase(Sub(trim(line), 1, SkipWord(trim(line), 1) - 1)) \in statementStarters

\* The statements a script is written as: each first line opens a statement, the
\* continuation lines after it are joined to it by single spaces, trimmed; blank
\* lines are left out.
RECURSIVE StatementsWritten(_)
StatementsWritten(written) ==
  IF written = << >> THEN << >>
  ELSE LET Last(before, line) ==
             IF line.role = "blank" THEN before
             ELSE IF line.role = "first" THEN Append(before, trim(line.text))
             ELSE [before EXCEPT ![Len(before)] = @ \o " " \o trim(line.text)]
       IN Last(StatementsWritten(SubSeq(written, 1, Len(written) - 1)),
               written[Len(written)])

\* A script written without semicolons whose every continuation line follows a
\* first line.
WrittenAsStatements ==
  /\ entries # << >>
  /\ ~hasSemicolons(script)
  /\ \A k \in 1..Len(entries) :
       entries[k].role = "cont" => \E j \in 1..(k - 1) : entries[j].role = "first"

\* C10 as stated: for a script without semicolons, every statement written over
\* several lines (a first line led by a keyword, then its continuation lines) is
\* returned as one statement: its non-blank lines, trimmed and joined by single
\* spaces; blank lines contribute nothing and no returned statement is empty.
C10_MultiLineStatementsAreJoined ==
  /\ (result # None /\ WrittenAsStatements) => result[1] = StatementsWritten(entries)
  /\ (result # None /\ ~hasSemicolons(script)) =>
       \A k \in 1..Len(result[1]) : result[1][k] # ""

\* C10, amended: ... (a first line led by a keyword, then its continuation lines,
\* none of which begins with a statement keyword) ...
C10_LinesWithoutKeywordAreJoined ==
  /\ (/\ result # None
      /\ WrittenAsStatements
      /\ \A k \in 1..Len(entries) :
           entries[k].role = "cont" => ~BeginsWithKeyword(entries[k].text)) =>
       result[1] = StatementsWritten(entries)
  /\ (result # None /\ ~hasSemicolons(script)) =>
       \A k \in 1..Len(result[1]) : result[1][k] # ""

\* A script of two statements, one of them over two lines, with a blank line, has
\* been split.
C10_Witness ==
  /\ result # None
  /\ WrittenAsStatements
  /\ \A k \in 1..Len(entries) :
       entries[k].role = "cont" => ~BeginsWithKeyword(entries[k].text)
  /\ \E k \in 1..Len(entries) : entries[k].role = "cont"
  /\ \E k \in 1..Len(entries) : entries[k].role = "first" /\ entries[k].text = "select *"
  /\ Len(EntriesOfRole(entries, "first")) >= 2
  /\ Len(result[1]) = 2


(***************************************************************************)
(* The columns of a CREATE TABLE statement                                 *)
(***************************************************************************)

\* The definition begins with the token(s) of a table-level constraint: its first
\* word is UNIQUE, CHECK or CONSTRAINT, or its first two words are PRIMARY KEY or
\* FOREIGN KEY, in any case.
LedByConstraint(definition) ==
  LET Word(d, i) == toUpperCase(Sub(d, i, SkipWord(d, i) - 1))
      Led(d) ==
        \/ Word(d, 1) \in {"UNIQUE", "CHECK", "CONSTRAINT"}
        \/ /\ Word(d, 1) \in {"PRIMARY", "FOREIGN"}
           /\ IsSpaceCh(Ch(d, SkipWord(d, 1)))
           /\ Word(d, SkipSpaces(d, SkipWord(d, 1))) = "KEY"
  IN Led(trim(definition))

\* The definition holds two tokens at least: a name and a type.
HasNameAndType(definition) ==
  LET Has(d) == d # "" /\ SkipSpaces(d, SkipToken(d, 1)) <= Len(d)
  IN Has(trim(definition))

\* The name a definition declares: its first token.
DeclaredName(definition) ==
  LET First(d) == Sub(d, 1, SkipToken(d, 1) - 1) IN First(trim(definition))

\* The names of the columns the definitions declare, in declaration order.
RECURSIVE DeclaredColumns(_)
DeclaredColumns(written) ==
  IF written = << >> THEN << >>
  ELSE (IF HasNameAndType(Head(written)) /\ ~LedByConstraint(Head(written))
        THEN <<DeclaredName(Head(written))>> ELSE << >>)
         \o DeclaredColumns(Tail(written))

\* parseCreateTable has returned a statement.
CreateParsed == createStatement # None /\ createStatement[1].ok

ParsedColumns == createStatement[1].columns

\* No name of the written definitions begins with a constraint keyword (the
\* definitions C13 is about).
NamesClearOfKeywords ==
  \A k \in 1..Len(createWritten) :
    LedByConstraint(createWritten[k]) <=> IsTableConstraint(trim(createWritten[k]))

\* C11: parseCreateTable returns one ColumnDefinition per top-level definition of
\* the parenthesized list that is not a table-level constraint, in declaration
\* order, also when definitions hold nested parentheses (stated here for names
\* that begin with no constraint keyword).
C11_OneColumnPerDefinition ==
  (CreateParsed /\ NamesClearOfKeywords) =>
    [k \in 1..Len(ParsedColumns) |-> ParsedColumns[k].name]
      = DeclaredColumns(createWritten)

\* C12: every ColumnDefinition parseCreateTable returns with isForeignKey = true
\* has its references, with a table and a column.
C12_ForeignKeyHasReferences ==
  CreateParsed =>
    \A k \in 1..Len(ParsedColumns) :
      ParsedColumns[k].isForeignKey =>
        /\ ParsedColumns[k].references # None
        /\ ParsedColumns[k].references[1].table # ""
        /\ ParsedColumns[k].references[1].column # ""

\* The text of the call holds no parenthesis but the two around the column list.
PlainColumnList ==
  \A k \in 1..Len(createWritten) :
    Count(createWritten[k], "(") = 0 /\ Count(createWritten[k], ")") = 0

\* C13: a definition is left out of the parsed columns if and only if its leading
\* token is one of PRIMARY KEY, FOREIGN KEY, UNIQUE, CHECK, CONSTRAINT; every
\* other definition that has a name and a type yields a column, also when its
\* name merely begins with such a keyword.
C13_LeftOutIffConstraint ==
  (CreateParsed /\ PlainColumnList) =>
    \A k \in 1..Len(createWritten) :
      HasNameAndType(createWritten[k]) =>
        (LedByConstraint(createWritten[k])
           <=> ~\E c \in 1..Len(ParsedColumns) :
                  ParsedColumns[c].name = DeclaredName(createWritten[k]))


(***************************************************************************)
(* The evaluation of a predicate                                           *)
(***************************************************************************)

\* The value of a comparison as it is written: without its quotes.
Unquoted(value) ==
  IF Len(value) >= 2 /\ Ch(value, 1) = "'" /\ Ch(value, Len(value)) = "'"
  THEN Sub(value, 2, Len(value) - 1) ELSE value

\* The anchored, case-insensitive wildcard match of LIKE: % stands for any
\* sequence of characters, _ for one character, every other character for itself.
RECURSIVE WildcardMatch(_, _, _, _)
WildcardMatch(like, i, text, j) ==
  IF i > Len(like) THEN j > Len(text)
  ELSE IF Ch(like, i) = "%"
       THEN \E n \in j..(Len(text) + 1) : WildcardMatch(like, i + 1, text, n)
  ELSE IF j > Len(text) THEN FALSE
  ELSE /\ (Ch(like, i) = "_" \/ UpperCh(Ch(like, i)) = UpperCh(Ch(text, j)))
       /\ WildcardMatch(like, i + 1, text, j + 1)

\* The comparison `column op value` on a row: numbers for the ordinal operators,
\* text or number equality for =, the wildcard match for LIKE.
ComparisonOn(data, c) ==
  LET Equal(v, value) ==
        \/ v.s = value
        \/ v.t = "number" /\ IsDigits(value) /\ parseInt(v.s) = parseInt(value)
      Ordinal(l, r) ==
        /\ ~l.nan /\ ~r.nan
        /\ CASE c.op = ">"  -> l.n > r.n
             [] c.op = "<"  -> l.n < r.n
             [] c.op = ">=" -> l.n >= r.n
             [] c.op = "<=" -> l.n <= r.n
      On(v, value) ==
        CASE c.op = "="           -> Equal(v, value)
          [] c.op \in {"!=", "<>"} -> ~Equal(v, value)
          [] c.op = "LIKE"        -> WildcardMatch(value, 1, v.s, 1)
          [] OTHER                -> Ordinal(NumberOf(v), NumberOfText(value))
  IN On(Get(data, c.column), Unquoted(c.value))

\* The evaluator has returned a boolean.
Evaluated == evalResult # None /\ ~evalResult[1].threw

\* C14: for a predicate `<identifier> <operator> <value>` with one operator among
\* >=, <=, !=, <>, =, >, <, LIKE, the evaluator returns the result of that comparison
\* on row[identifier] and the unquoted value.
C14_ReturnsTheComparison ==
  (Evaluated /\ Len(evalWritten[1].parts) = 1) =>
    evalResult[1].value = ComparisonOn(evalRow, evalWritten[1].parts[1])

\* What the evaluator gives for each part of the condition, taken alone.
PartValues ==
  [k \in 1..Len(evalWritten[1].parts) |->
     evaluateSimpleCondition(evalRow, ComparisonText(evalWritten[1].parts[k]))]

\* C15: for comparisons joined only by AND the evaluator returns true exactly when
\* every part evaluates true on the row; joined only by OR, exactly when at least
\* one part evaluates true.
C15_AndIsEveryOrIsSome ==
  (Evaluated /\ Len(evalWritten[1].parts) >= 2) =>
    (evalResult[1].value
       <=> IF evalWritten[1].joiner = "AND"
           THEN \A k \in 1..Len(PartValues) : PartValues[k]
           ELSE \E k \in 1..Len(PartValues) : PartValues[k])

\* C17: the evaluator is total: for every row and every predicate text it returns
\* a boolean and never throws.
C17_EvaluatorNeverThrows ==
  evalResult # None => ~evalResult[1].threw


(***************************************************************************)
(* The filters of the data flow                                            *)
(***************************************************************************)

\* The condition holds no comparison pattern (a word, then one of the comparison
\* operators, then something) and neither AND nor OR between spaces.
Unrecognized(condition) ==
  LET No(U) ==
        /\ \A i \in 1..Len(condition) : \A op \in ComparisonOperators :
             ~(/\ IsWordCh(Ch(condition, i))
               /\ KwAt(U, SkipSpaces(condition, i + 1), op)
               /\ SkipSpaces(condition, i + 1) + Len(op) <= Len(condition))
        /\ ~includes(U, " AND ") /\ ~includes(U, " OR ")
  IN No(toUpperCase(condition))

\* The predicate of the WHERE or HAVING step k.
FilterClause(k) ==
  IF dataFlow[k].stepType = "WHERE" THEN parsedQuery.where[1] ELSE parsedQuery.having[1]

FilterSteps_Unrecognized ==
  {k \in 2..Len(dataFlow) :
     dataFlow[k].stepType \in {"WHERE", "HAVING"} /\ Unrecognized(FilterClause(k))}

\* C16: fail-open: when a predicate holds none of the recognized comparison
\* patterns and no AND/OR, the evaluator returns true for every row, so the WHERE
\* or HAVING step with such a predicate excludes no row.
C16_FailOpen ==
  \A k \in FilterSteps_Unrecognized : \A i \in 1..Len(dataFlow[k].rows) :
    /\ evaluateSimpleCondition(StepRows(k)[i].data, FilterClause(k))
    /\ StepRows(k)[i].included = StepRows(k - 1)[i].included

\* A WHERE step and a HAVING step with such predicates have run on two included
\* rows at least.
C16_Witness ==
  /\ \E k \in FilterSteps_Unrecognized :
       dataFlow[k].stepType = "WHERE" /\ dataFlow[k].stats.includedRows >= 2
  /\ \E k \in FilterSteps_Unrecognized :
       dataFlow[k].stepType = "HAVING" /\ dataFlow[k].stats.includedRows >= 2

\* The steps of the given type the data flow holds after its first step.
FlowSteps(type) == {k \in 2..Len(dataFlow) : dataFlow[k].stepType = type}

\* Row i of step k was included before the step and no earlier row included
\* before the step has its data.
FirstOfItsData(k, i) ==
  /\ StepRows(k - 1)[i].included
  /\ \A j \in 1..(i - 1) :
       StepRows(k - 1)[j].included => StepRows(k - 1)[j].data # StepRows(k - 1)[i].data

\* C18: after the DISTINCT step, among the rows that were included before the step
\* and have equal data, exactly the first in row order remains included and every
\* later one is excluded with the duplicate reason; rows with unique data stay
\* included.
C18_DistinctKeepsTheFirst ==
  \A k \in FlowSteps("DISTINCT") : \A i \in 1..Len(dataFlow[k].rows) :
    /\ Len(dataFlow[k].rows) = Len(dataFlow[k - 1].rows)
    /\ StepRows(k)[i].data = StepRows(k - 1)[i].data
    /\ StepRows(k)[i].included <=> FirstOfItsData(k, i)
    /\ (StepRows(k - 1)[i].included /\ ~FirstOfItsData(k, i)) =>
         StepRows(k)[i].excludedReason = "Duplicate row removed by DISTINCT"

\* DISTINCT has run on the rows {id:1}, {id:1}, {id:2}, all included: the first and
\* the third stay, the second is excluded.
C18_Witness ==
  \E k \in FlowSteps("DISTINCT") :
    /\ [i \in 1..Len(dataFlow[k].rows) |-> Get(StepRows(k)[i].data, "id").s] = <<"1", "1", "2">>
    /\ \A i \in 1..3 : StepRows(k - 1)[i].included
    /\ [i \in 1..3 |-> StepRows(k)[i].included] = <<TRUE, FALSE, TRUE>>

\* The number of rows of step k that are included among its first i rows.
IncludedUpTo(k, i) == Cardinality({j \in 1..i : StepRows(k)[j].included})

\* C19: after the LIMIT N step applied to rows of which k are included, exactly
\* min(N, k) rows are included, the first min(N, k) included rows in current order;
\* every other previously included row is excluded with a LIMIT reason, and the
\* order of the rows is unchanged.
C19_LimitKeepsTheFirstN ==
  \A k \in FlowSteps("LIMIT") :
    /\ Len(dataFlow[k].rows) = Len(dataFlow[k - 1].rows)
    /\ dataFlow[k].stats.includedRows
         = Min({parsedQuery.limit[1], dataFlow[k - 1].stats.includedRows})
    /\ \A i \in 1..Len(dataFlow[k].rows) :
         /\ StepRows(k)[i].rid = StepRows(k - 1)[i].rid
         /\ StepRows(k)[i].data = StepRows(k - 1)[i].data
         /\ StepRows(k)[i].included
              <=> (StepRows(k - 1)[i].included
                     /\ IncludedUpTo(k - 1, i) <= parsedQuery.limit[1])
         /\ (StepRows(k - 1)[i].included /\ ~StepRows(k)[i].included) =>
              StepRows(k)[i].excludedReason
                = "Excluded by LIMIT " \o NatToString(parsedQuery.limit[1])

\* LIMIT 2 has run on 5 included rows: 2 are included and 3 excluded.
C19_Witness ==
  \E k \in FlowSteps("LIMIT") :
    /\ parsedQuery.limit[1] = 2
    /\ dataFlow[k - 1].stats.includedRows = 5
    /\ dataFlow[k].stats.includedRows = 2 /\ dataFlow[k].stats.excludedRows = 3

\* C20: every rejection by visualize that is not a failure of a data-layer call (a
\* non-SELECT statement, a SELECT with no execution steps, a SELECT with no
\* primary table) is a ParseError with the code SQL_PARSE_ERROR.
C20_RejectionsAreParseErrors ==
  (pc = "failed" /\ dbCalls = << >> /\ trim(query) # "") => outcome = "SQL_PARSE_ERROR"


(***************************************************************************)
(* The calls a visualization makes on the database                         *)
(***************************************************************************)

\* The statement of the request is no SELECT: its first word is another one.
NonSelect ==
  LET First(q) == toUpperCase(Sub(q, 1, SkipWord(q, 1) - 1))
  IN trim(query) # "" /\ First(trim(query)) # "SELECT"

\* C21: a visualization request for a non-SELECT statement is rejected before any
\* simulation work: the request never enters the simulation, and no table fetch
\* and no execution of the statement happens before or after the rejection.
C21_NonSelectDoesNoWork ==
  NonSelect =>
    /\ pc \in {"validate", "failed"}
    /\ dbCalls = << >> /\ dataFlow = << >> /\ heap = << >>
    /\ executionSteps = << >> /\ parsedQuery = << >> /\ finalResult = << >>

\* A statement that is no SELECT but holds one (FROM a table of the schema) has
\* been rejected.
C21_Witness ==
  /\ NonSelect /\ pc = "failed"
  /\ includes(toUpperCase(query), "SELECT") /\ includes(query, "FROM cs")

\* The positions of the calls of an operation in dbCalls.
CallsOf(op) == {n \in 1..Len(dbCalls) : dbCalls[n].op = op}

\* C22: in every successful visualize call the original query text is executed
\* exactly once, after all table fetches, with no retry; finalResult.rows is
\* exactly the row list that execution returned; and if a table fetch fails the
\* error propagates and the execution is never issued.
C22_ExecutedOnceAfterTheFetches ==
  /\ Cardinality(CallsOf("executeQuery")) <= 1
  /\ \A n \in CallsOf("executeQuery") :
       /\ n = Len(dbCalls) /\ dbCalls[n].arg = query
       /\ pc \in {"done", "failed"}
  /\ pc = "done" =>
       /\ CallsOf("executeQuery") = {Len(dbCalls)}
       /\ dbCalls[Len(dbCalls)].answer = Some(finalResult.rows)
  /\ \A n \in CallsOf("getTableData") :
       dbCalls[n].arg \notin TableNames =>
         /\ n = Len(dbCalls) /\ pc = "failed" /\ outcome = "MYSQL_ERROR"
         /\ finalResult = << >>

\* A visualization has succeeded after two table fetches, with rows from the
\* engine that are not the included rows of the simulation.
C22_Witness ==
  /\ pc = "done" /\ Cardinality(CallsOf("getTableData")) = 2
  /\ Len(finalResult.rows) = 2
  /\ dataFlow[Len(dataFlow)].stats.includedRows # 2


(***************************************************************************)
(* The steps of the data flow, one by one                                  *)
(***************************************************************************)

\* What step k shows of its row i: data, flag and reason.
Shown(k, i) ==
  [data |-> StepRows(k)[i].data, included |-> StepRows(k)[i].included,
   excludedReason |-> StepRows(k)[i].excludedReason]

\* C23: after a WHERE step (and likewise a HAVING step) with predicate p, every row
\* that was included before the step is included exactly when evaluate(row.data, p)
\* is true and otherwise is excluded with a reason that names p; every row that was
\* already excluded keeps its data, flag and reason, and the columns are unchanged.
C23_FilterFlagsTheIncludedRows ==
  \A k \in FlowSteps("WHERE") \cup FlowSteps("HAVING") :
    /\ dataFlow[k].columns = dataFlow[k - 1].columns
    /\ Len(dataFlow[k].rows) = Len(dataFlow[k - 1].rows)
    /\ \A i \in 1..Len(dataFlow[k].rows) :
         IF StepRows(k - 1)[i].included
         THEN /\ StepRows(k)[i].data = StepRows(k - 1)[i].data
              /\ StepRows(k)[i].included
                   <=> evaluateSimpleCondition(StepRows(k - 1)[i].data, FilterClause(k))
              /\ ~StepRows(k)[i].included =>
                   includes(StepRows(k)[i].excludedReason, FilterClause(k))
         ELSE Shown(k, i) = Shown(k - 1, i)

\* A HAVING step has run after a WHERE step: it excluded a row, kept another, and
\* left a row as the WHERE step had excluded it.
C23_Witness ==
  \E k \in FlowSteps("HAVING") : \E a, b, c \in 1..Len(dataFlow[k].rows) :
    /\ StepRows(k - 1)[a].included /\ ~StepRows(k)[a].included
    /\ StepRows(k)[b].included
    /\ ~StepRows(k - 1)[c].included
    /\ includes(StepRows(k)[c].excludedReason, parsedQuery.where[1])

\* The column a select item names and the column it reads: `col AS alias` names
\* alias and reads col, any other item names and reads itself.
ItemName(item) == IF AliasRegex(item).found THEN AliasRegex(item).g2 ELSE item

ItemSource(item) == IF AliasRegex(item).found THEN trim(AliasRegex(item).g1) ELSE item

\* C24: after the SELECT step, the columns list is the resolved projection (the
\* current columns for *, the alias for each col AS alias, the name otherwise) and
\* every row's data holds exactly those columns, the value under an alias being
\* the value the row held under col before the step, the value under a plain name
\* the row's prior value for that name.
C24_SelectProjects ==
  \A k \in FlowSteps("SELECT") :
    IF parsedQuery.columns = <<"*">>
    THEN /\ dataFlow[k].columns = dataFlow[k - 1].columns
         /\ \A i \in 1..Len(dataFlow[k].rows) :
              /\ ObjectKeys(StepRows(k)[i].data) = dataFlow[k].columns
              /\ \A c \in 1..Len(dataFlow[k].columns) :
                   Get(StepRows(k)[i].data, dataFlow[k].columns[c])
                     = Get(StepRows(k - 1)[i].data, dataFlow[k].columns[c])
    ELSE /\ dataFlow[k].columns
              = [c \in 1..Len(parsedQuery.columns) |-> ItemName(parsedQuery.columns[c])]
         /\ \A i \in 1..Len(dataFlow[k].rows) :
              /\ ObjectKeys(StepRows(k)[i].data) = dataFlow[k].columns
              /\ \A c \in 1..Len(parsedQuery.columns) :
                   Get(StepRows(k)[i].data, ItemName(parsedQuery.columns[c]))
                     = Get(StepRows(k - 1)[i].data, ItemSource(parsedQuery.columns[c]))


\* Row a goes before row b by the keys: on the first key where their values
\* differ, a's value is the lower one (the higher one for DESC).
GoesBefore(a, b, keys) ==
  \E n \in 1..Len(keys) :
    /\ \A m \in 1..(n - 1) :
         CompareValues(Get(a.data, keys[m].column), Get(b.data, keys[m].column)) = 0
    /\ IF keys[n].direction = "DESC"
       THEN CompareValues(Get(a.data, keys[n].column), Get(b.data, keys[n].column)) > 0
       ELSE CompareValues(Get(a.data, keys[n].column), Get(b.data, keys[n].column)) < 0

\* Where the row at position p of step k stood in the step before.
PositionBefore(k, p) ==
  CHOOSE i \in 1..Len(dataFlow[k - 1].rows) : dataFlow[k - 1].rows[i] = dataFlow[k].rows[p]

\* C25: the ORDER BY step outputs a permutation of its input rows (the same
\* RowStates, included and excluded alike) that is sorted by the {column,
\* direction} keys in priority order, numbers compared numerically, other values
\* as strings, DESC reversing the comparison; rows that tie on every key keep
\* their previous relative order.
C25_OrderByIsAStableSort ==
  \A k \in FlowSteps("ORDER BY") :
    /\ Len(dataFlow[k].rows) = Len(dataFlow[k - 1].rows)
    /\ {dataFlow[k].rows[p] : p \in 1..Len(dataFlow[k].rows)}
         = {dataFlow[k - 1].rows[i] : i \in 1..Len(dataFlow[k - 1].rows)}
    /\ Cardinality({dataFlow[k].rows[p] : p \in 1..Len(dataFlow[k].rows)})
         = Len(dataFlow[k].rows)
    /\ \A p, q \in 1..Len(dataFlow[k].rows) :
         p < q =>
           /\ ~GoesBefore(StepRows(k)[q], StepRows(k)[p], parsedQuery.orderBy[1])
           /\ ~GoesBefore(StepRows(k)[p], StepRows(k)[q], parsedQuery.orderBy[1]) =>
                PositionBefore(k, p) < PositionBefore(k, q)

\* ORDER BY has run with two keys on rows of which one is excluded: two rows tie
\* on the first key and the second key has moved the excluded one up.
C25_Witness ==
  \E k \in FlowSteps("ORDER BY") :
    /\ Len(parsedQuery.orderBy[1]) = 2
    /\ \E p \in 1..Len(dataFlow[k].rows) :
         /\ ~StepRows(k)[p].included
         /\ PositionBefore(k, p) > p
         /\ p > 1
         /\ Get(StepRows(k)[p].data, "name") = Get(StepRows(k)[p - 1].data, "name")


\* C26: the OFFSET N step, applied to the rows still included after any LIMIT
\* step, excludes exactly the first min(N, k) of the k included rows in current
\* order with a reason naming OFFSET N, leaves the later included rows included
\* and the excluded rows untouched, and preserves the order; so with LIMIT L and
\* OFFSET N on k included rows, max(0, min(L, k) - N) rows remain included.
C26_OffsetSkipsTheFirstN ==
  \A k \in FlowSteps("OFFSET") :
    /\ Len(dataFlow[k].rows) = Len(dataFlow[k - 1].rows)
    /\ dataFlow[k - 1].stats.includedRows - dataFlow[k].stats.includedRows
         = Min({parsedQuery.offset[1], dataFlow[k - 1].stats.includedRows})
    /\ \A i \in 1..Len(dataFlow[k].rows) :
         /\ StepRows(k)[i].rid = StepRows(k - 1)[i].rid
         /\ StepRows(k)[i].data = StepRows(k - 1)[i].data
         /\ IF ~StepRows(k - 1)[i].included THEN Shown(k, i) = Shown(k - 1, i)
            ELSE IF IncludedUpTo(k - 1, i) <= parsedQuery.offset[1]
            THEN /\ ~StepRows(k)[i].included
                 /\ includes(StepRows(k)[i].excludedReason,
                             "OFFSET " \o NatToString(parsedQuery.offset[1]))
            ELSE StepRows(k)[i].included
    /\ (k > 2 /\ dataFlow[k - 1].stepType = "LIMIT") =>
         dataFlow[k].stats.includedRows
           = Max({0, Min({parsedQuery.limit[1], dataFlow[k - 2].stats.includedRows})
                       - parsedQuery.offset[1]})

\* OFFSET 1 has run after LIMIT 2 on three included rows and an excluded one, in
\* the order ORDER BY left: one row remains included.
C26_Witness ==
  \E k \in FlowSteps("OFFSET") :
    /\ k > 3 /\ dataFlow[k - 1].stepType = "LIMIT" /\ dataFlow[k - 2].stepType = "ORDER BY"
    /\ dataFlow[k - 2].stats.includedRows = 3 /\ dataFlow[k - 2].stats.excludedRows = 2
    /\ dataFlow[k].stats.includedRows = 1
    /\ parsedQuery.limit[1] = 2 /\ parsedQuery.offset[1] = 1


\* generateDataFlow has returned: the request is at the final query or past it.
DataFlowReturned ==
  pc \in {"final", "done"} \/ (pc = "failed" /\ CallsOf("executeQuery") # {})

\* C27: when all table fetches succeed, the dataFlow list holds exactly one
\* DataFlowStep per ExecutionStep returned by parseExecutionOrder, in the same
\* order and with the same stepOrder and stepType, and no DataFlowStep exists for a
\* clause absent from the query.
C27_OneDataFlowStepPerExecutionStep ==
  DataFlowReturned =>
    [k \in 1..Len(dataFlow) |-> <<dataFlow[k].stepOrder, dataFlow[k].stepType>>]
      = [k \in 1..Len(executionSteps) |-> <<executionSteps[k].order, executionSteps[k].type>>]

\* A request whose data flow was returned with a JOIN step among at least five
\* steps, all of them in increasing order.
C27_Witness ==
  /\ pc = "done"
  /\ Len(dataFlow) >= 5
  /\ Len(dataFlow) = Len(executionSteps)
  /\ \E k \in 1..Len(dataFlow) : dataFlow[k].stepType = "JOIN"
  /\ \A k \in 2..Len(dataFlow) : dataFlow[k - 1].stepOrder < dataFlow[k].stepOrder

(***************************************************************************)
(* SQLExecutionService.executeSQL and executeMultipleSQL                   *)
(***************************************************************************)

\* SQLExecutionService.executeSQL(connection, schemaName, sql), the database
\* accepting the statement or not: the calls made on the repository, and the
\* response returned (success) or the message of the error thrown.
executeSQL(sql, accepted) ==
  IF trim(sql) = ""
  THEN [sent |-> << >>, success |-> FALSE, message |-> "SQL statement is required"]
  ELSE LET statementType == detectStatementType(sql)
           Answer(op) ==
             [sent |-> <<[op |-> op, arg |-> sql]>>, success |-> accepted,
              message |-> IF accepted THEN statementType ELSE "ER_" \o statementType]
       IN IF statementType = "SELECT" THEN Answer("executeQuery")
          ELSE IF statementType = "CREATE TABLE" /\ ~parseCreateTable(sql).ok
          THEN [sent |-> << >>, success |-> FALSE, message |-> parseCreateTable(sql).message]
          ELSE Answer("executeStatement")

\* The entry executeMultipleSQL pushes for the statement at position k, and the
\* calls that statement made on the repository.
ResultEntry(r, k) == [success |-> r.success, message |-> r.message, statement |-> k]

SentCalls(r, k) == [j \in 1..Len(r.sent) |-> [call |-> r.sent[j], statement |-> k]]

\* A loop that ends at the first statement that fails.
ExecuteStatementStopping ==
  /\ multiAt = "running" /\ result # None /\ stmtIdx <= Len(result[1])
  /\ IF trim(result[1][stmtIdx]) = ""
     THEN UNCHANGED <<submitted, results>> /\ stmtIdx' = stmtIdx + 1
     ELSE \E accepted \in BOOLEAN :
            LET Turn(r) ==
                  /\ submitted' = submitted \o SentCalls(r, stmtIdx)
                  /\ results' = Append(results, ResultEntry(r, stmtIdx))
                  /\ stmtIdx' = IF r.success THEN stmtIdx + 1 ELSE Len(result[1]) + 1
            IN Turn(executeSQL(result[1][stmtIdx], accepted))
  /\ UNCHANGED <<multiAt, serverVars, requestVars, splitterVars, callVars>>

\* executeMultipleSQL: one turn of the loop over the statements, the call of
\* executeSQL answered; what it throws becomes an entry {success: false}.
ExecuteStatement ==
  /\ multiAt = "running" /\ result # None /\ stmtIdx <= Len(result[1])
  /\ IF trim(result[1][stmtIdx]) = ""
     THEN UNCHANGED <<submitted, results>>
     ELSE \E accepted \in BOOLEAN :
            LET Turn(r) ==
                  /\ submitted' = submitted \o SentCalls(r, stmtIdx)
                  /\ results' = Append(results, ResultEntry(r, stmtIdx))
            IN Turn(executeSQL(result[1][stmtIdx], accepted))
  /\ stmtIdx' = stmtIdx + 1
  /\ UNCHANGED <<multiAt, serverVars, requestVars, splitterVars, callVars>>

\* executeMultipleSQL: return results.
ReturnResults ==
  /\ multiAt = "running" /\ result # None /\ stmtIdx > Len(result[1])
  /\ multiAt' = "returned"
  /\ UNCHANGED <<stmtIdx, submitted, results, serverVars, requestVars, splitterVars,
                 callVars>>

\* The scripts given to executeMultipleSQL.
MultiScripts ==
  {"SELECT 1; INSERT INTO t VALUES ('a;b'); DELETE FROM t",
   "CREATE TABLE t (id INT); CREATE TABLE; SELECT * FROM t;",
   "SELECT 1\nDELETE FROM t\nDROP TABLE t",
   ";; SELECT 1 ;",
   "EXPLAIN t; create table u (a INT PRIMARY KEY, b TEXT)",
   " \n "}

InitMulti ==
  /\ RequestIdle
  /\ CallsIdle
  /\ ServerIdle
  /\ \E sql \in MultiScripts : ScriptArrives(sql, << >>)
  /\ multiAt = "running" /\ stmtIdx = 1 /\ submitted = << >> /\ results = << >>

NextMulti ==
  \/ SplitStatements
  \/ SemicolonStep
  \/ SemicolonReturn
  \/ NewlineStep
  \/ NewlineReturn
  \/ ExecuteStatement
  \/ ReturnResults

SpecMulti == InitMulti /\ [][NextMulti]_vars

\* The statements executeMultipleSQL has gone past.
Passed == IF result = None THEN {} ELSE 1..(stmtIdx - 1)

\* C28: executeMultipleSQL sends the split statements to the database in script
\* order and each at most once; every non-empty statement gone past has exactly
\* one entry in results, in statement order, a failed one an entry with
\* success false that does not end the loop: when the results are returned
\* every statement has been gone past.
C28_OneEntryPerStatementInOrder ==
  /\ \A k \in Passed :
       /\ Cardinality({j \in 1..Len(results) : results[j].statement = k})
            = IF trim(result[1][k]) = "" THEN 0 ELSE 1
       /\ Cardinality({j \in 1..Len(submitted) : submitted[j].statement = k}) <= 1
  /\ \A j \in 1..Len(results) : results[j].statement \in Passed
  /\ \A j \in 1..Len(submitted) :
       /\ submitted[j].statement \in Passed
       /\ submitted[j].call.arg = result[1][submitted[j].statement]
  /\ \A i, j \in 1..Len(results) : i < j => results[i].statement < results[j].statement
  /\ \A i, j \in 1..Len(submitted) : i < j => submitted[i].statement < submitted[j].statement
  /\ \A j \in 1..Len(results) :
       results[j].success => \E i \in 1..Len(submitted) :
                               submitted[i].statement = results[j].statement
  /\ multiAt = "returned" => Passed = 1..Len(result[1])

\* Three statements were run: the first was rejected by the database, the second
\* was refused before it was sent, the third succeeded.
C28_Witness ==
  /\ multiAt = "returned" /\ Len(results) = 3
  /\ ~results[1].success /\ ~results[2].success /\ results[3].success
  /\ [j \in 1..Len(submitted) |-> submitted[j].statement] = <<1, 3>>

(***************************************************************************)
(* The server: sessions, pool connections, the SQL requests and the        *)
(* cleanup pass of SessionRepository, one action per step between awaits   *)
(***************************************************************************)

\* The session timeout (constructor parameter sessionTimeoutMs), in units of the model.
sessionTimeoutMs == 2

\* The last time of the model.
MaxTime == 3

\* The sessions, in the order they were created in.
CreatedSessions == <<"s1", "s2">>

SessionIds == {CreatedSessions[k] : k \in 1..Len(CreatedSessions)}

RequestIds == {"r1", "r2"}

\* The routes of SQLController.
RequestKinds == {"execute", "execute-multiple", "tables", "tableData", "visualize"}

\* sessions.delete(sessionId)
MapDelete(map, id) == [k \in DOMAIN map \ {id} |-> map[k]]

\* entry.session.lastAccessedAt = new Date()
Touch(map, id) == [map EXCEPT ![id].lastAccessedAt = now]

\* pool.getConnection() granted to holder: the connection is the last of the list.
Acquire(holder) == Append(connections, [by |-> holder, releases |-> 0])

\* connection.release()
Release(c) == [connections EXCEPT ![c].releases = @ + 1]

\* The request r at the step `at`.
At(r, at) == r \in DOMAIN requests /\ requests[r].at = at

\* The request r goes on to the step `at`.
GoesTo(r, at) == requests' = [requests EXCEPT ![r].at = at]

\* The request r ends with the error thrown.
Throws(r, error) == requests' = [requests EXCEPT ![r].at = "failed", ![r].error = error]

\* The clock.
Tick ==
  /\ now < MaxTime
  /\ now' = now + 1
  /\ UNCHANGED <<sessions, schemas, connections, requests, cleanup, multiVars,
                 requestVars, splitterVars, callVars>>

\* A handler of SQLController up to its first await: the check of sessionId, then
\* SessionService.getConnection up to pool.getConnection().
Receive ==
  \E r \in RequestIds \ DOMAIN requests, kind \in RequestKinds, id \in SessionIds \cup {""} :
    LET Arrived(at, error) ==
          requests' = [k \in DOMAIN requests \cup {r} |->
                         IF k = r THEN [kind |-> kind, sessionId |-> id, at |-> at,
                                        connection |-> 0, error |-> error]
                         ELSE requests[k]]
    IN /\ IF id = "" THEN Arrived("failed", "VALIDATION_ERROR") /\ sessions' = sessions
          ELSE IF id \notin DOMAIN sessions
          THEN Arrived("failed", "SESSION_NOT_FOUND") /\ sessions' = sessions
          ELSE Arrived("pool", "") /\ sessions' = Touch(sessions, id)
       /\ UNCHANGED <<now, schemas, connections, cleanup, multiVars, requestVars,
                      splitterVars, callVars>>

\* getSessionConnection: pool.getConnection() answers, and the USE query is sent.
GetConnection ==
  \E r \in DOMAIN requests :
    /\ At(r, "pool")
    /\ \/ /\ connections' = Acquire(r)
          /\ requests' = [requests EXCEPT ![r].at = "use",
                                          ![r].connection = Len(connections) + 1]
       \/ /\ connections' = connections
          /\ Throws(r, "POOL_ERROR")
    /\ UNCHANGED <<now, sessions, schemas, cleanup, multiVars, requestVars,
                   splitterVars, callVars>>

\* getSessionConnection: the USE query answers.  When it succeeds the handler goes
\* on to getSchemaName and into its try block, where it calls the service.
UseSchema ==
  \E r \in DOMAIN requests :
    /\ At(r, "use")
    /\ IF requests[r].sessionId \notin schemas
       THEN Throws(r, "ER_BAD_DB_ERROR") /\ sessions' = sessions
       ELSE IF requests[r].sessionId \notin DOMAIN sessions
       THEN Throws(r, "SESSION_NOT_FOUND") /\ sessions' = sessions
       ELSE GoesTo(r, "service") /\ sessions' = Touch(sessions, requests[r].sessionId)
    /\ UNCHANGED <<now, schemas, connections, cleanup, multiVars, requestVars,
                   splitterVars, callVars>>

\* The handler's try block: the service returns or throws, and finally the
\* connection is released.
ServiceReturns ==
  \E r \in DOMAIN requests :
    /\ At(r, "service")
    /\ \/ GoesTo(r, "done")
       \/ Throws(r, "SQL_ERROR")
    /\ connections' = Release(requests[r].connection)
    /\ UNCHANGED <<now, sessions, schemas, cleanup, multiVars, requestVars,
                   splitterVars, callVars>>

\* The sessions a pass finds expired, in the order of the map (the order the
\* sessions were created in).
ExpiredAmong(map, at) ==
  LET IsExpired(id) ==
        id \in DOMAIN map /\ at - map[id].lastAccessedAt > sessionTimeoutMs
  IN SelectSeq(CreatedSessions, IsExpired)

\* The cleanup pass goes on to its next expired session, or returns.
NextExpired(expiredSessions, cleanedCount) ==
  [at |-> IF expiredSessions = << >> THEN "returned" ELSE "pool",
   expiredSessions |-> expiredSessions, connection |-> 0, cleanedCount |-> cleanedCount]

\* cleanupExpiredSessions: the expired sessions are collected, and
\* dropSessionSchema is called for the first of them.
CleanupStarts ==
  /\ cleanup.at \in {"idle", "returned"}
  /\ cleanup' = NextExpired(ExpiredAmong(sessions, now), 0)
  /\ cleanup' # cleanup
  /\ UNCHANGED <<now, sessions, schemas, connections, requests, multiVars, requestVars,
                 splitterVars, callVars>>

\* dropSessionSchema: pool.getConnection() answers, and the DROP query is sent; a
\* rejection is caught by the loop of the pass, which goes on.
CleanupGetConnection ==
  /\ cleanup.at = "pool"
  /\ \/ /\ connections' = Acquire("cleanup")
        /\ cleanup' = [cleanup EXCEPT !.at = "drop", !.connection = Len(connections) + 1]
     \/ /\ connections' = connections
        /\ cleanup' = NextExpired(Tail(cleanup.expiredSessions), cleanup.cleanedCount)
  /\ UNCHANGED <<now, sessions, schemas, requests, multiVars, requestVars, splitterVars,
                 callVars>>

\* dropSessionSchema: the DROP query answers; the connection is released and true
\* or false returned.  The pass then deletes the session from the map and counts it.
CleanupDrop ==
  /\ cleanup.at = "drop"
  /\ LET sessionId == Head(cleanup.expiredSessions)
     IN /\ \/ schemas' = schemas \ {sessionId}
           \/ schemas' = schemas /\ sessionId \in schemas
        /\ sessions' = MapDelete(sessions, sessionId)
        /\ cleanup' = NextExpired(Tail(cleanup.expiredSessions), cleanup.cleanedCount + 1)
  /\ connections' = Release(cleanup.connection)
  /\ UNCHANGED <<now, requests, multiVars, requestVars, splitterVars, callVars>>

\* Two sessions have been created at time 0, each with its schema.
InitServer ==
  /\ RequestIdle
  /\ SplitterIdle
  /\ CallsIdle
  /\ MultiIdle
  /\ now = 0
  /\ sessions = [id \in SessionIds |-> [lastAccessedAt |-> 0]]
  /\ schemas = SessionIds
  /\ connections = << >> /\ requests = << >> /\ cleanup = NoPass

NextServer ==
  \/ Tick
  \/ Receive
  \/ GetConnection
  \/ UseSchema
  \/ ServiceReturns
  \/ CleanupStarts
  \/ CleanupGetConnection
  \/ CleanupDrop

SpecServer == InitServer /\ [][NextServer]_vars

\* The request r has ended.
Ended(r) == r \in DOMAIN requests /\ requests[r].at \in {"done", "failed"}

\* C29: every pool connection acquired for an SQL request has been released
\* exactly once when the request has ended, whether it succeeded or failed, the
\* failure of the switch to the session's schema included, and no connection
\* is ever released twice.
C29_ConnectionsReleasedOnce ==
  /\ \A c \in 1..Len(connections) : connections[c].releases <= 1
  /\ \A r \in DOMAIN requests :
       Ended(r) /\ requests[r].connection # 0
         => connections[requests[r].connection].releases = 1

\* The pass drops the schema of the session id, or deletes it from the map, in
\* this step.
DropsSchema(id) == id \in schemas /\ id \notin schemas'

DeletesSession(id) == id \in DOMAIN sessions /\ id \notin DOMAIN sessions'

\* C30: under any interleaving of a cleanup pass with the requests, the pass
\* drops the schema of a session and deletes it from the map only if the
\* session's lastAccessedAt is then older than the session timeout, and it
\* deletes a session from the map only when the drop of its schema succeeded.
C30_OnlyExpiredSessionsAreDropped ==
  [][\A id \in SessionIds :
       /\ DropsSchema(id) \/ DeletesSession(id)
            => id \in DOMAIN sessions
               /\ now - sessions[id].lastAccessedAt > sessionTimeoutMs
       /\ DeletesSession(id) => DropsSchema(id)]_vars

====
